---- MODULE Spec2Model ----
(***************************************************************************)
(* State-machine model of aldakit's playback scheduler                     *)
(* (aldakit/midi/backends/async_playback.py, libremidi_backend.py), of the *)
(* playback event flattening, of the MIDI generator and of the SMF codec.  *)
(*                                                                         *)
(* Threads of the playback model: caller threads (clients of the           *)
(* AsyncPlaybackManager API) and worker threads (one per Thread object     *)
(* created by play()).  A `with self._lock:` block is one atomic step: all *)
(* writers of slot.active / slot.events / slot.stop_requested hold _lock,  *)
(* so no other step can fall inside such a block.  Everything outside a    *)
(* locked block is split at each access to shared state.                   *)
(***************************************************************************)
EXTENDS Integers, Sequences, FiniteSets, TLC

VARIABLES
    slots,            \* AsyncPlaybackManager._slots: slot_id -> PlaybackSlot
    shutdown,         \* AsyncPlaybackManager._shutdown
    concurrent_mode,  \* AsyncPlaybackManager._concurrent_mode
    callers,          \* caller thread -> position and locals of its API call
    workers,          \* Thread object -> position and locals of _play_slot
    midi_lock,        \* LibremidiBackend._midi_lock: holder, or NoHolder
    sink,             \* threads currently inside _midi_out.send_message
    dispatched,       \* play call -> events handed to the output sink so far
    play_events,      \* play call -> event list _build_events returned for it
    results,          \* play call -> value play() returned
    interrupted,      \* some stop(), stop_slot() or shutdown() call was issued
    ncalls,           \* number of API calls issued so far
    b_seq,            \* _build_events: the MidiSequence argument
    b_events,         \* _build_events: the returned event list
    b_pc,             \* _build_events: "start" before the call, "done" after
    g_ast,            \* MidiGenerator.generate: RootNode.children of its argument
    g_agenda,         \* MidiGenerator: nodes still to be passed to _process_node
    g_state,          \* MidiGenerator.state (GeneratorState)
    g_sequence,       \* MidiGenerator.sequence (MidiSequence)
    g_pc,             \* generate(): "start", "running", "returned" or "raised"
    g_frames,         \* _process_voice_group calls in progress, innermost first:
                      \* their locals all_parts, start_times, max_end_time
    f_data,           \* the bytes write_midi_file wrote to the file
    f_seq,            \* the MidiSequence read_midi_file returned
    f_pc,             \* the file: "none", "written", "read", or the error raised
    p_tokens,         \* Parser.tokens
    p_current,        \* Parser._current (1-based here)
    p_children,       \* parse(): the children collected so far
    p_skipped,        \* positions of the tokens _parse_primary_event skipped
    p_error,          \* the AldaSyntaxError parse() raised: message, position
    p_pc,             \* parse(): "start", "loop", "returned" or "raised"
    s_source,         \* Scanner.source, a list of characters
    s_current,        \* Scanner._current (1-based here)
    s_tokens,         \* Scanner.tokens
    s_sexp_depth,     \* Scanner._sexp_depth
    s_lexer,          \* the lexer the last _scan_token call handed its character to
    s_pc,             \* scan(): "start", "scanning", "returned" or "raised"
    l_current,        \* Parser._current while the scanned tokens are parsed
    l_open,           \* number of _parse_sexp calls in progress
    l_passes,         \* passes made so far by the element loops of _parse_sexp
    l_pc              \* parse(): "idle", "loop", "sexp", "returned" or "raised"

pvars == <<slots, shutdown, concurrent_mode, callers, workers, midi_lock, sink,
           dispatched, play_events, results, interrupted, ncalls>>
bvars == <<b_seq, b_events, b_pc>>
gvars == <<g_ast, g_agenda, g_state, g_sequence, g_pc, g_frames, f_data, f_seq, f_pc>>

xvars == <<p_tokens, p_current, p_children, p_skipped, p_error, p_pc>>

svars == <<s_source, s_current, s_tokens, s_sexp_depth, s_lexer, s_pc,
           l_current, l_open, l_passes, l_pc>>

vars == <<pvars, bvars, gvars, xvars, svars>>

\* what the actions of one component leave alone
NotPlayback == <<bvars, gvars, xvars, svars>>
NotBuild == <<pvars, gvars, xvars, svars>>
NotGenerator == <<pvars, bvars, xvars, svars>>
NotParser == <<pvars, bvars, gvars, svars>>
NotScanner == <<pvars, bvars, gvars, xvars>>

----------------------------------------------------------------------------
(* Bounds of the model *)

\* constants.py sets MAX_PLAYBACK_SLOTS = 8; the pool is scaled down here.
MAX_PLAYBACK_SLOTS == 2
\* constants.py sets MIDI_MAX_CHANNELS = 16; scaled down here.
MIDI_MAX_CHANNELS == 1
NumCallers == 2
\* the number of nested variable references the interpreter's stack holds
RecursionLimit == 3
MaxCalls == 3

SlotIds == 0 .. (MAX_PLAYBACK_SLOTS - 1)
CallerIds == 1 .. NumCallers
CallIds == 1 .. MaxCalls
NoSlot == -1          \* None where a slot or slot id is expected
Pending == -2         \* play() has not returned yet
RuntimeError == -3    \* play() raised RuntimeError
NoThread == 0
NoHolder == <<"none", 0>>

----------------------------------------------------------------------------
(* PlaybackEvent lists: _build_events *)

PlaybackEvent(t, ty, a) == [time |-> t, event_type |-> ty, args |-> a]

\* the sort key without its second component
SortKeyNotOff_TimeOnly(e) == 0

\* second component of the sort key: e.event_type != "note_off"
SortKeyNotOff(e) == IF e.event_type # "note_off" THEN 1 ELSE 0

\* tuple comparison of the keys (e.time, e.event_type != "note_off")
KeyLess(a, b) ==
    \/ a.time < b.time
    \/ a.time = b.time /\ SortKeyNotOff(a) < SortKeyNotOff(b)

\* list.sort is stable: an element goes after every element whose key is
\* not greater than its own.
RECURSIVE InsertByKey(_, _)
InsertByKey(e, sorted) ==
    IF sorted = <<>> THEN <<e>>
    ELSE IF KeyLess(e, Head(sorted)) THEN <<e>> \o sorted
    ELSE <<Head(sorted)>> \o InsertByKey(e, Tail(sorted))

RECURSIVE SortEvents(_)
SortEvents(evs) ==
    IF evs = <<>> THEN <<>>
    ELSE InsertByKey(evs[Len(evs)], SortEvents(SubSeq(evs, 1, Len(evs) - 1)))

ProgramEvents(pcs) ==
    [k \in 1 .. Len(pcs) |->
        PlaybackEvent(pcs[k].time, "program", <<pcs[k].channel, pcs[k].program>>)]

ControlEvents(ccs) ==
    [k \in 1 .. Len(ccs) |->
        PlaybackEvent(ccs[k].time, "control",
                      <<ccs[k].channel, ccs[k].control, ccs[k].value>>)]

NoteOnEvent(n) ==
    PlaybackEvent(n.start_time, "note_on", <<n.channel, n.pitch, n.velocity>>)

NoteOffEvent(n) ==
    PlaybackEvent(n.start_time + n.duration, "note_off", <<n.channel, n.pitch>>)

RECURSIVE NoteEvents(_)
NoteEvents(notes) ==
    IF notes = <<>> THEN <<>>
    ELSE <<NoteOnEvent(Head(notes)), NoteOffEvent(Head(notes))>>
            \o NoteEvents(Tail(notes))

_build_events(sequence) ==
    SortEvents(ProgramEvents(sequence.program_changes)
               \o ControlEvents(sequence.control_changes)
               \o NoteEvents(sequence.notes))

MidiNote(p, v, s, d, c) ==
    [pitch |-> p, velocity |-> v, start_time |-> s, duration |-> d, channel |-> c]

MidiSequence(ns, pcs, ccs) ==
    [notes |-> ns, program_changes |-> pcs, control_changes |-> ccs,
     tempo_changes |-> <<>>, ticks_per_beat |-> 480]

\* sequences handed to play(): an empty one and a one-note one
EmptySequence == MidiSequence(<<>>, <<>>, <<>>)
OneNoteSequence == MidiSequence(<<MidiNote(60, 100, 0, 1, 0)>>, <<>>, <<>>)
PlaySequences == {EmptySequence, OneNoteSequence}

----------------------------------------------------------------------------
(* Numbers.  Python floats are modelled by exact fractions <<n, d>> in      *)
(* lowest terms with d > 0; int(x) truncates towards zero.                  *)

Abs(x) == IF x < 0 THEN -x ELSE x

Min(a, b) == IF a <= b THEN a ELSE b

Max(a, b) == IF a >= b THEN a ELSE b

RECURSIVE GCD(_, _)
GCD(a, b) == IF b = 0 THEN a ELSE GCD(b, a % b)

\* the number n / d, for d # 0
Frac(n, d) ==
    LET g == GCD(Abs(n), Abs(d))
        s == IF d < 0 THEN -1 ELSE 1
    IN <<(s * n) \div g, (s * d) \div g>>

Whole(n) == <<n, 1>>

\* x + y over the least common denominator
RAdd(x, y) ==
    LET g == GCD(x[2], y[2])
    IN Frac(x[1] * (y[2] \div g) + y[1] * (x[2] \div g), (x[2] \div g) * y[2])

RSub(x, y) == RAdd(x, <<-y[1], y[2]>>)

RMul(x, y) ==
    LET g1 == GCD(Abs(x[1]), y[2])
        g2 == GCD(Abs(y[1]), x[2])
    IN <<(x[1] \div g1) * (y[1] \div g2), (x[2] \div g2) * (y[2] \div g1)>>

\* x / y, for y # 0
RDiv(x, y) == RMul(x, Frac(y[2], y[1]))

RLess(x, y) ==
    LET g == GCD(x[2], y[2]) IN x[1] * (y[2] \div g) < y[1] * (x[2] \div g)

RMax(x, y) == IF RLess(x, y) THEN y ELSE x

RMin(x, y) == IF RLess(y, x) THEN y ELSE x

\* int(x): truncation towards zero
RTrunc(x) == IF x[1] >= 0 THEN x[1] \div x[2] ELSE -((-x[1]) \div x[2])

\* max(n.start_time + n.duration for n in notes), from the value sofar on
RECURSIVE MaxEnd(_, _)
MaxEnd(notes, sofar) ==
    IF notes = <<>> THEN sofar
    ELSE MaxEnd(Tail(notes),
                RMax(sofar, RAdd(Head(notes).start_time, Head(notes).duration)))

\* MidiSequence.duration(), for a sequence whose times are fractions
MidiSequence_duration(sequence) ==
    IF sequence.notes = <<>> THEN Whole(0)
    ELSE MaxEnd(Tail(sequence.notes),
                RAdd(Head(sequence.notes).start_time, Head(sequence.notes).duration))

\* the concatenation of a list of lists
RECURSIVE Concat(_)
Concat(chunks) ==
    IF chunks = <<>> THEN <<>> ELSE Head(chunks) \o Concat(Tail(chunks))

\* list.sort(key=...) and sorted(key=...) are stable; items are records
\* [key |-> number, val |-> element]
RECURSIVE InsertStable(_, _)
InsertStable(item, sorted) ==
    IF sorted = <<>> THEN <<item>>
    ELSE IF RLess(item.key, Head(sorted).key) THEN <<item>> \o sorted
    ELSE <<Head(sorted)>> \o InsertStable(item, Tail(sorted))

RECURSIVE StableSort(_)
StableSort(items) ==
    IF items = <<>> THEN <<>>
    ELSE InsertStable(items[Len(items)], StableSort(SubSeq(items, 1, Len(items) - 1)))

\* a list sorted by the time field `time` or `start_time` of its elements
SortByTime(list) ==
    LET sorted == StableSort([k \in 1 .. Len(list) |-> [key |-> list[k].time, val |-> list[k]]])
    IN [k \in 1 .. Len(list) |-> sorted[k].val]

SortByStartTime(list) ==
    LET sorted == StableSort([k \in 1 .. Len(list) |->
                                [key |-> list[k].start_time, val |-> list[k]]])
    IN [k \in 1 .. Len(list) |-> sorted[k].val]

----------------------------------------------------------------------------
(* The AST handed to the generator *)

NoDuration == <<>>          \* duration is None
NoAlias == ""               \* alias is None

NoteLengthNode(denominator, dots) ==
    [type |-> "NoteLength", value |-> denominator, dots |-> dots]

NoteLengthMsNode(ms) == [type |-> "NoteLengthMs", value |-> ms, dots |-> 0]

NoteLengthSecondsNode(seconds) ==
    [type |-> "NoteLengthSeconds", value |-> seconds, dots |-> 0]

\* DurationNode: the list of its components
DurationNode(components) == components

NoteNode(letter, accidentals, duration, slurred) ==
    [type |-> "Note", letter |-> letter, accidentals |-> accidentals,
     duration |-> duration, slurred |-> slurred]

RestNode(duration) == [type |-> "Rest", duration |-> duration]

OctaveSetNode(octave) == [type |-> "OctaveSet", octave |-> octave]

OctaveUpNode == [type |-> "OctaveUp"]

OctaveDownNode == [type |-> "OctaveDown"]

BarlineNode == [type |-> "Barline"]

LispSymbolNode(name) == [type |-> "LispSymbol", name |-> name]

LispNumberNode(value) == [type |-> "LispNumber", value |-> value]

\* value: the string split at white space, each token a list of characters
LispStringNode(value) == [type |-> "LispString", tokens |-> value]

LispQuotedNode(value) == [type |-> "LispQuoted", quoted |-> value]

LispListNode(elements) == [type |-> "LispList", elements |-> elements]

EventSequenceNode(events) == [type |-> "EventSequence", events |-> events]

\* PartNode with its PartDeclarationNode (names, alias) and its events
PartNode(names, alias, events) ==
    [type |-> "Part", names |-> names, alias |-> alias, events |-> events]

\* BracketedSequenceNode: events is the list of its EventSequenceNode
BracketedSequenceNode(events) == [type |-> "BracketedSequence", events |-> events]

\* VariableDefinitionNode: events is the list of its EventSequenceNode
VariableDefinitionNode(name, events) ==
    [type |-> "VariableDefinition", name |-> name, events |-> events]

VariableReferenceNode(name) == [type |-> "VariableReference", name |-> name]

\* VoiceNode: events is the list of its EventSequenceNode
VoiceNode(number, events) == [type |-> "Voice", number |-> number, events |-> events]

VoiceGroupNode(voices) == [type |-> "VoiceGroup", voices |-> voices]

\* notes holds the chord's notes, rests, octave changes and attribute forms
ChordNode(notes) == [type |-> "Chord", notes |-> notes]

\* events is the event list of the cram's EventSequenceNode
CramNode(events, duration) == [type |-> "Cram", events |-> events, duration |-> duration]

RepeatNode(event, times) == [type |-> "Repeat", event |-> event, times |-> times]

\* last is <<>> for a single number, <<n>> for the range first-n
RepetitionRange(first, last) == [first |-> first, last |-> last]

OnRepetitionsNode(event, ranges) ==
    [type |-> "OnRepetitions", event |-> event, ranges |-> ranges]

----------------------------------------------------------------------------
(* Parser (aldakit/parser.py).  A token is its type and its literal; its   *)
(* position is its index in the token list.  The token list always ends    *)
(* with the EOF token.  Modelled token types: NOTE_LETTER, REST_LETTER,    *)
(* BARLINE, OCTAVE_UP, OCTAVE_DOWN, NAME, COLON, EQUALS, NEWLINE,          *)
(* EVENT_SEQ_OPEN, EVENT_SEQ_CLOSE and EOF; the branches of the parser for *)
(* the other token types are never entered on such a list.                 *)

Token(type, literal) == [type |-> type, literal |-> literal]

\* the parser went on: position reached, nodes built, tokens skipped
Parsed(current, nodes, skipped) ==
    [message |-> "", position |-> 0, current |-> current, nodes |-> nodes,
     skipped |-> skipped]

\* _error: AldaSyntaxError(message, self._peek().position)
AldaSyntaxError(message, current) ==
    [message |-> message, position |-> current, current |-> current,
     nodes |-> <<>>, skipped |-> <<>>]

_is_at_end(tokens, current) == tokens[current].type = "EOF"

_check(tokens, current, token_type) ==
    /\ ~_is_at_end(tokens, current)
    /\ tokens[current].type = token_type

RECURSIVE _skip_newlines(_, _)
_skip_newlines(tokens, current) ==
    IF _check(tokens, current, "NEWLINE")
    THEN _skip_newlines(tokens, current + 1)
    ELSE current

\* lines 88-103: the look-ahead for the colon
RECURSIVE LookAheadForColon(_, _)
LookAheadForColon(tokens, pos) ==
    IF pos > Len(tokens) THEN FALSE
    ELSE IF tokens[pos].type = "COLON" THEN TRUE
    ELSE IF tokens[pos].type = "EQUALS" THEN FALSE
    ELSE IF tokens[pos].type \in {"SEPARATOR", "ALIAS", "NAME"}
         THEN LookAheadForColon(tokens, pos + 1)
    ELSE FALSE

_is_part_declaration(tokens, current) ==
    /\ _check(tokens, current, "NAME")
    /\ LookAheadForColon(tokens, current)

_is_variable_definition(tokens, current) ==
    /\ _check(tokens, current, "NAME")
    /\ current + 1 <= Len(tokens)
    /\ tokens[current + 1].type = "EQUALS"

\* _consume, then what follows it
Consumed(tokens, current, token_type, message) ==
    IF _check(tokens, current, token_type)
    THEN Parsed(current + 1, <<>>, <<>>)
    ELSE AldaSyntaxError(message, current)

RECURSIVE _parse_event(_, _)
RECURSIVE EventSequenceContent(_, _, _, _, _)
RECURSIVE DefinitionEvents(_, _, _, _)

\* lines 168-176: one pass of the loop, after its first two tests
EventSequencePass(tokens, current, stop_tokens, events, skipped, event) ==
    IF \/ _is_at_end(tokens, current)
       \/ _is_part_declaration(tokens, current)
       \/ tokens[current].type \in stop_tokens
    THEN Parsed(current, events, skipped)
    ELSE IF event.message # "" THEN event
    ELSE EventSequenceContent(tokens, event.current, stop_tokens,
                              events \o event.nodes, skipped \o event.skipped)

\* _parse_event_sequence_content with the events collected so far
EventSequenceContent(tokens, current, stop_tokens, events, skipped) ==
    IF \/ _is_at_end(tokens, current)
       \/ _is_part_declaration(tokens, current)
       \/ tokens[current].type \in stop_tokens
    THEN Parsed(current, events, skipped)
    ELSE EventSequencePass(tokens, _skip_newlines(tokens, current), stop_tokens,
                           events, skipped,
                           _parse_event(tokens, _skip_newlines(tokens, current)))

_parse_event_sequence_content(tokens, current, stop_tokens) ==
    EventSequenceContent(tokens, current, stop_tokens, <<>>, <<>>)

\* lines 383-388: the closing bracket, then the node
BracketClosed(tokens, content) ==
    IF content.message # "" THEN content
    ELSE IF _check(tokens, content.current, "EVENT_SEQ_CLOSE")
    THEN Parsed(content.current + 1, <<BracketedSequenceNode(content.nodes)>>,
                content.skipped)
    ELSE AldaSyntaxError("Expected ']'", content.current)

_parse_bracketed_sequence(tokens, current) ==
    BracketClosed(tokens,
        _parse_event_sequence_content(tokens, current + 1, {"EVENT_SEQ_CLOSE"}))

\* lines 297-302: the loop over the events of the definition
DefinitionPass(tokens, events, skipped, event) ==
    IF event.message # "" THEN event
    ELSE DefinitionEvents(tokens, event.current, events \o event.nodes,
                          skipped \o event.skipped)

DefinitionEvents(tokens, current, events, skipped) ==
    IF \/ _is_at_end(tokens, current)
       \/ _check(tokens, current, "NEWLINE")
       \/ _is_part_declaration(tokens, current)
    THEN Parsed(current, events, skipped)
    ELSE DefinitionPass(tokens, events, skipped, _parse_event(tokens, current))

VariableDefined(name, content) ==
    IF content.message # "" THEN content
    ELSE Parsed(content.current, <<VariableDefinitionNode(name, content.nodes)>>,
                content.skipped)

\* the caller has checked the NAME and the EQUALS token
_parse_variable_definition(tokens, current) ==
    VariableDefined(tokens[current].literal,
                    DefinitionEvents(tokens, current + 2, <<>>, <<>>))

_parse_variable_reference(tokens, current) ==
    Parsed(current + 1, <<VariableReferenceNode(tokens[current].literal)>>, <<>>)

\* no duration token follows in the modelled token types
_parse_rest(tokens, current) ==
    Parsed(current + 1, <<RestNode(NoDuration)>>, <<>>)

\* no accidental, duration, tie or separator follows
_parse_note(tokens, current) ==
    Parsed(current + 1,
           <<NoteNode(tokens[current].literal, <<>>, NoDuration, FALSE)>>, <<>>)

_parse_note_or_chord(tokens, current) == _parse_note(tokens, current)

_parse_primary_event(tokens, current) ==
    IF _check(tokens, current, "BARLINE")
    THEN Parsed(current + 1, <<BarlineNode>>, <<>>)
    ELSE IF _check(tokens, current, "OCTAVE_UP")
    THEN Parsed(current + 1, <<OctaveUpNode>>, <<>>)
    ELSE IF _check(tokens, current, "OCTAVE_DOWN")
    THEN Parsed(current + 1, <<OctaveDownNode>>, <<>>)
    ELSE IF _check(tokens, current, "EVENT_SEQ_OPEN")
    THEN _parse_bracketed_sequence(tokens, current)
    ELSE IF _is_variable_definition(tokens, current)
    THEN _parse_variable_definition(tokens, current)
    ELSE IF _check(tokens, current, "NAME")
    THEN _parse_variable_reference(tokens, current)
    ELSE IF _check(tokens, current, "REST_LETTER")
    THEN _parse_rest(tokens, current)
    ELSE IF _check(tokens, current, "NOTE_LETTER")
    THEN _parse_note_or_chord(tokens, current)
    \* lines 251-254: "Unexpected token - skip it"
    ELSE IF ~_is_at_end(tokens, current)
    THEN Parsed(current + 1, <<>>, <<current>>)
    ELSE Parsed(current, <<>>, <<>>)

\* no REPEAT or REPETITIONS token follows: _parse_postfix returns the event
_parse_event(tokens, current) ==
    IF _check(tokens, current, "NEWLINE")
    THEN Parsed(current + 1, <<>>, <<>>)
    ELSE _parse_primary_event(tokens, current)

\* lines 136-153 without separator and alias: the name, then the colon
_parse_part_declaration(tokens, current) ==
    IF ~_check(tokens, current, "NAME")
    THEN AldaSyntaxError("Expected instrument name", current)
    ELSE Consumed(tokens, current + 1, "COLON",
                  "Expected ':' after part declaration")

PartParsed(name, content) ==
    IF content.message # "" THEN content
    ELSE Parsed(content.current, <<PartNode(<<name>>, NoAlias, content.nodes)>>,
                content.skipped)

PartEvents(tokens, name, declaration) ==
    IF declaration.message # "" THEN declaration
    ELSE PartParsed(name,
            _parse_event_sequence_content(
                tokens, _skip_newlines(tokens, declaration.current), {}))

_parse_part(tokens, current) ==
    PartEvents(tokens, tokens[current].literal,
               _parse_part_declaration(tokens, current))

ImplicitEvents(content) ==
    IF content.message # "" \/ content.nodes = <<>> THEN content
    ELSE Parsed(content.current, <<EventSequenceNode(content.nodes)>>,
                content.skipped)

_parse_top_level(tokens, current) ==
    IF _is_part_declaration(tokens, current)
    THEN _parse_part(tokens, current)
    ELSE ImplicitEvents(_parse_event_sequence_content(tokens, current, {}))

(* parse(): one step per pass of its loop *)

\* no source text has been handed to the scanner
ScannerIdle ==
    /\ s_source = <<>>
    /\ s_current = 0
    /\ s_tokens = <<>>
    /\ s_sexp_depth = 0
    /\ s_lexer = "none"
    /\ s_pc = "idle"
    /\ l_current = 0
    /\ l_open = 0
    /\ l_passes = 0
    /\ l_pc = "idle"

ParserIdle ==
    /\ p_tokens = <<>>
    /\ p_current = 0
    /\ p_children = <<>>
    /\ p_skipped = <<>>
    /\ p_error = AldaSyntaxError("", 0)
    /\ p_pc = "idle"

\* lines 60-61
Parse ==
    /\ p_pc = "start"
    /\ p_current' = _skip_newlines(p_tokens, p_current)
    /\ p_pc' = "loop"
    /\ UNCHANGED <<NotParser, p_tokens, p_children, p_skipped, p_error>>

\* lines 63-67
ParseTopLevel ==
    /\ p_pc = "loop"
    /\ ~_is_at_end(p_tokens, p_current)
    /\ \E node \in {_parse_top_level(p_tokens, p_current)} :
          IF node.message # ""
          THEN /\ p_pc' = "raised"
               /\ p_error' = node
               /\ UNCHANGED <<p_current, p_children, p_skipped>>
          ELSE /\ p_children' = p_children \o node.nodes
               /\ p_skipped' = p_skipped \o node.skipped
               /\ p_current' = _skip_newlines(p_tokens, node.current)
               /\ UNCHANGED <<p_pc, p_error>>
    /\ UNCHANGED <<NotParser, p_tokens>>

\* line 69
ParseReturn ==
    /\ p_pc = "loop"
    /\ _is_at_end(p_tokens, p_current)
    /\ p_pc' = "returned"
    /\ UNCHANGED <<NotParser, p_tokens, p_current, p_children, p_skipped, p_error>>

----------------------------------------------------------------------------
(* MidiGenerator: state *)

PartState(channel, program, tempo) ==
    [octave |-> 4, tempo |-> tempo, volume |-> 69,
     quantization |-> Frac(9, 10), default_duration |-> Whole(1),
     current_time |-> Whole(0), channel |-> channel, program |-> program,
     key_signature |-> <<>>, transpose |-> 0]

GeneratorState ==
    [global_tempo |-> Whole(120), variables |-> <<>>, markers |-> <<>>,
     parts |-> <<>>, current_parts |-> <<>>, next_channel |-> 0,
     repetition_number |-> 1]

MidiTempoChange(bpm, time) == [bpm |-> bpm, time |-> time]

MidiProgramChange(program, time, channel) ==
    [program |-> program, time |-> time, channel |-> channel]

MidiControlChange(control, value, time, channel) ==
    [control |-> control, value |-> value, time |-> time, channel |-> channel]

\* a part name: a plain name or alias is <<name, -1>>, the i-th member of an
\* aliased group (f"{alias}_{i}") is <<alias, i>>
PartName(name, i) == <<name, i>>

\* dict[key] = value
DictSet(dict, key, value) ==
    [k \in DOMAIN dict \cup {key} |-> IF k = key THEN value ELSE dict[k]]

\* number of times name occurs in the list names
Count(names, name) == Cardinality({k \in DOMAIN names : names[k] = name})

INSTRUMENT_PROGRAMS(name) ==
    CASE name = "piano" -> 0
      [] name = "violin" -> 40
      [] name = "cello" -> 42
      [] OTHER -> 0

NOTE_OFFSETS(letter) ==
    CASE letter = "c" -> 0
      [] letter = "d" -> 2
      [] letter = "e" -> 4
      [] letter = "f" -> 5
      [] letter = "g" -> 7
      [] letter = "a" -> 9
      [] letter = "b" -> 11

note_to_midi(letter, octave, accidentals) ==
    LET sharps == Cardinality({k \in DOMAIN accidentals : accidentals[k] = "+"})
        flats == Cardinality({k \in DOMAIN accidentals : accidentals[k] = "-"})
    IN Max(0, Min(127, 12 * (octave + 1) + NOTE_OFFSETS(letter) + sharps - flats))

\* the state after _get_part_state(): the implicit part exists when no part
\* is active
_get_part_state(state) ==
    IF state.current_parts = <<>>
    THEN [state EXCEPT
            !.current_parts = <<PartName("_default", -1)>>,
            !.parts = DictSet(@, PartName("_default", -1),
                              PartState(state.next_channel, 0, Whole(120))),
            !.next_channel = Min(15, @ + 1)]
    ELSE state

\* the state after _get_all_part_states(); the part states it returns are
\* those named by current_parts of that state
_get_all_part_states(state) == _get_part_state(state)

\* `for part in parts: F(part)`: F(part, n) is the part after n applications
ForEachPart(parts, names, F(_, _)) ==
    [n \in DOMAIN parts |->
        IF Count(names, n) > 0 THEN F(parts[n], Count(names, n)) ELSE parts[n]]

\* the names of all parts, for `for p in self.state.parts.values()`
RECURSIVE SetToSeq(_)
SetToSeq(S) ==
    IF S = {} THEN <<>>
    ELSE LET x == CHOOSE y \in S : TRUE IN <<x>> \o SetToSeq(S \ {x})

----------------------------------------------------------------------------
(* MidiGenerator: durations *)

\* 4.0 / component.denominator raises ZeroDivisionError
CalculateDurationRaises(duration) ==
    \E k \in DOMAIN duration :
        duration[k].type = "NoteLength" /\ duration[k].value[1] = 0

\* beats of a NoteLengthNode: 4 / denominator, extended by its dots
RECURSIVE Dotted(_, _, _)
Dotted(beats, dot_value, dots) ==
    IF dots = 0 THEN beats
    ELSE Dotted(RAdd(beats, RDiv(dot_value, Whole(2))), RDiv(dot_value, Whole(2)), dots - 1)

ComponentBeats(component, part) ==
    CASE component.type = "NoteLength" ->
            LET beats == RDiv(Whole(4), component.value)
            IN Dotted(beats, beats, component.dots)
      [] component.type = "NoteLengthMs" ->
            RMul(RDiv(component.value, Whole(1000)), RDiv(part.tempo, Whole(60)))
      [] component.type = "NoteLengthSeconds" ->
            RMul(component.value, RDiv(part.tempo, Whole(60)))

RECURSIVE SumBeats(_, _)
SumBeats(components, part) ==
    IF components = <<>> THEN Whole(0)
    ELSE RAdd(ComponentBeats(Head(components), part), SumBeats(Tail(components), part))

\* for a duration on which CalculateDurationRaises is false
_calculate_duration(duration, part) ==
    IF duration = NoDuration THEN part.default_duration
    ELSE SumBeats(duration, part)

\* beats * 60.0 / tempo raises ZeroDivisionError
BeatsToSecondsRaises(tempo) == tempo[1] = 0

_beats_to_seconds(beats, tempo) == RDiv(RMul(beats, Whole(60)), tempo)

----------------------------------------------------------------------------
(* MidiGenerator: notes and rests.  A handler is a function of the state   *)
(* and the sequence to [raised, state, sequence]; when it raises, the       *)
(* exception leaves generate() and the rest of the result is not used.      *)

Outcome(raised, state, sequence) ==
    [raised |-> raised, state |-> state, sequence |-> sequence]

\* a variant whose time cursor advances by the sounding duration
RECURSIVE NoteForParts_SoundingAdvance(_, _, _, _, _)
NoteForParts_SoundingAdvance(names, state, sequence, node, is_chord) ==
    IF names = <<>> THEN Outcome(FALSE, state, sequence)
    ELSE
        LET part == state.parts[Head(names)]
            accidentals ==
                IF node.accidentals = <<>>
                THEN IF node.letter \in DOMAIN part.key_signature
                     THEN <<part.key_signature[node.letter]>>
                     ELSE <<>>
                ELSE IF \E k \in DOMAIN node.accidentals : node.accidentals[k] = "_"
                     THEN <<>>
                     ELSE node.accidentals
            base_note == note_to_midi(node.letter, part.octave, accidentals)
            midi_note == IF part.transpose # 0
                         THEN Max(0, Min(127, base_note + part.transpose))
                         ELSE base_note
        IN IF CalculateDurationRaises(node.duration) \/ BeatsToSecondsRaises(part.tempo)
           THEN Outcome(TRUE, state, sequence)
           ELSE
             LET duration_beats == _calculate_duration(node.duration, part)
                 duration_secs == _beats_to_seconds(duration_beats, part.tempo)
                 actual_duration == IF node.slurred THEN duration_secs
                                    ELSE RMul(duration_secs, part.quantization)
                 midi_note_event == MidiNote(midi_note, part.volume, part.current_time,
                                             actual_duration, part.channel)
                 new_part ==
                    [part EXCEPT
                        !.default_duration =
                            IF node.duration # NoDuration THEN duration_beats ELSE @,
                        !.current_time =
                            IF is_chord THEN @ ELSE RAdd(@, actual_duration)]
             IN NoteForParts_SoundingAdvance(Tail(names),
                             [state EXCEPT !.parts[Head(names)] = new_part],
                             [sequence EXCEPT !.notes = Append(@, midi_note_event)],
                             node, is_chord)

\* body of the loop over the active parts in _process_note
RECURSIVE NoteForParts(_, _, _, _, _)
NoteForParts(names, state, sequence, node, is_chord) ==
    IF names = <<>> THEN Outcome(FALSE, state, sequence)
    ELSE
        LET part == state.parts[Head(names)]
            accidentals ==
                IF node.accidentals = <<>>
                THEN IF node.letter \in DOMAIN part.key_signature
                     THEN <<part.key_signature[node.letter]>>
                     ELSE <<>>
                ELSE IF \E k \in DOMAIN node.accidentals : node.accidentals[k] = "_"
                     THEN <<>>
                     ELSE node.accidentals
            base_note == note_to_midi(node.letter, part.octave, accidentals)
            midi_note == IF part.transpose # 0
                         THEN Max(0, Min(127, base_note + part.transpose))
                         ELSE base_note
        IN IF CalculateDurationRaises(node.duration) \/ BeatsToSecondsRaises(part.tempo)
           THEN Outcome(TRUE, state, sequence)
           ELSE
             LET duration_beats == _calculate_duration(node.duration, part)
                 duration_secs == _beats_to_seconds(duration_beats, part.tempo)
                 actual_duration == IF node.slurred THEN duration_secs
                                    ELSE RMul(duration_secs, part.quantization)
                 midi_note_event == MidiNote(midi_note, part.volume, part.current_time,
                                             actual_duration, part.channel)
                 new_part ==
                    [part EXCEPT
                        !.default_duration =
                            IF node.duration # NoDuration THEN duration_beats ELSE @,
                        !.current_time =
                            IF is_chord THEN @ ELSE RAdd(@, duration_secs)]
             IN NoteForParts(Tail(names),
                             [state EXCEPT !.parts[Head(names)] = new_part],
                             [sequence EXCEPT !.notes = Append(@, midi_note_event)],
                             node, is_chord)

_process_note(state, sequence, node, is_chord) ==
    LET with_parts == _get_all_part_states(state)
    IN NoteForParts(with_parts.current_parts, with_parts, sequence, node, is_chord)

\* body of the loop over the active parts in _process_rest
RECURSIVE RestForParts(_, _, _, _)
RestForParts(names, state, sequence, node) ==
    IF names = <<>> THEN Outcome(FALSE, state, sequence)
    ELSE
        LET part == state.parts[Head(names)]
        IN IF CalculateDurationRaises(node.duration) \/ BeatsToSecondsRaises(part.tempo)
           THEN Outcome(TRUE, state, sequence)
           ELSE
             LET duration_beats == _calculate_duration(node.duration, part)
                 duration_secs == _beats_to_seconds(duration_beats, part.tempo)
                 new_part ==
                    [part EXCEPT
                        !.default_duration =
                            IF node.duration # NoDuration THEN duration_beats ELSE @,
                        !.current_time = RAdd(@, duration_secs)]
             IN RestForParts(Tail(names),
                             [state EXCEPT !.parts[Head(names)] = new_part],
                             sequence, node)

_process_rest(state, sequence, node) ==
    LET with_parts == _get_all_part_states(state)
    IN RestForParts(with_parts.current_parts, with_parts, sequence, node)

\* the OctaveSetNode, OctaveUpNode and OctaveDownNode branches of _process_node
SetOctave(state, octave) ==
    LET with_parts == _get_all_part_states(state)
        Set(part, n) == [part EXCEPT !.octave = octave]
    IN [with_parts EXCEPT !.parts = ForEachPart(@, with_parts.current_parts, Set)]

ShiftOctave(state, by) ==
    LET with_parts == _get_all_part_states(state)
        Shift(part, n) == [part EXCEPT !.octave = @ + by * n]
    IN [with_parts EXCEPT !.parts = ForEachPart(@, with_parts.current_parts, Shift)]

\* the loop over node.declaration.names in _process_part; i is the index of
\* Head(names) in the declaration, n the number of names declared
RECURSIVE DeclareParts(_, _, _, _, _, _)
DeclareParts(names, alias, i, n, state, sequence) ==
    IF names = <<>> THEN Outcome(FALSE, [state EXCEPT !.current_parts = <<>>], sequence)
    ELSE
        LET name == Head(names)
            part_name == IF alias # NoAlias /\ n > 1 THEN PartName(alias, i)
                         ELSE IF alias # NoAlias THEN PartName(alias, -1)
                         ELSE PartName(name, -1)
            program == INSTRUMENT_PROGRAMS(name)
            channel == state.next_channel
            declared ==
                IF part_name \in DOMAIN state.parts
                THEN Outcome(FALSE, state, sequence)
                ELSE Outcome(FALSE,
                        [state EXCEPT
                            !.next_channel = Min(15, @ + 1),
                            !.parts = DictSet(@, part_name,
                                        PartState(channel, program, state.global_tempo))],
                        [sequence EXCEPT
                            !.program_changes =
                                Append(@, MidiProgramChange(program, Whole(0), channel))])
            rest == DeclareParts(Tail(names), alias, i + 1, n,
                                 declared.state, declared.sequence)
        IN Outcome(FALSE,
                   [rest.state EXCEPT !.current_parts = <<part_name>> \o @],
                   rest.sequence)

\* _process_part up to the processing of the part's events
_process_part(state, sequence, node) ==
    DeclareParts(node.names, node.alias, 0, Len(node.names), state, sequence)

----------------------------------------------------------------------------
(* MidiGenerator: variables and voice groups *)

\* a variant that registers nothing
_process_variable_definition_Unstored(state, node) == state

_process_variable_definition(state, node) ==
    [state EXCEPT !.variables = DictSet(@, node.name, node.events)]

\* the events _process_variable_reference hands to _process_event_sequence
_process_variable_reference(state, node) ==
    IF node.name \in DOMAIN state.variables THEN state.variables[node.name]
    ELSE <<>>

\* the number of _process_variable_reference calls that have not returned
ReferenceDepth(agenda) ==
    Cardinality({k \in DOMAIN agenda : agenda[k].type = "ReferenceEnd"})

\* max(sofar, part.current_time for part in names)
RECURSIVE MaxCurrentTime(_, _, _)
MaxCurrentTime(state, names, sofar) ==
    IF names = <<>> THEN sofar
    ELSE MaxCurrentTime(state, Tail(names),
                        RMax(sofar, state.parts[Head(names)].current_time))

\* lines 745-747: the locals of a _process_voice_group call; state is the
\* state after _get_all_part_states()
VoiceFrame(state) ==
    [all_parts |-> state.current_parts,
     start_times |-> [n \in {state.current_parts[k] : k \in DOMAIN state.current_parts}
                        |-> state.parts[n].current_time],
     max_end_time |-> MaxCurrentTime(state, Tail(state.current_parts),
                                     state.parts[Head(state.current_parts)].current_time),
     \* history: the time cursors at the end of each voice processed so far
     voice_ends |-> <<>>]

\* lines 751-752: every part of the group back at its start time
ResetToStart(state, frame) ==
    [state EXCEPT !.parts =
        [n \in DOMAIN @ |->
            IF n \in DOMAIN frame.start_times
            THEN [@[n] EXCEPT !.current_time = frame.start_times[n]]
            ELSE @[n]]]

\* lines 758-759: every part of the group at the end of the longest voice
AdvanceToEnd(state, frame) ==
    [state EXCEPT !.parts =
        [n \in DOMAIN @ |->
            IF n \in DOMAIN frame.start_times
            THEN [@[n] EXCEPT !.current_time = frame.max_end_time]
            ELSE @[n]]]

----------------------------------------------------------------------------
(* MidiGenerator: repeats *)

\* the passes of the loop of _process_repeat from pass i on: the assignment
\* of repetition_number, then the repeated event
RECURSIVE RepeatPasses(_, _)
RepeatPasses(node, i) ==
    IF i > node.times THEN <<>>
    ELSE <<[type |-> "RepeatPass", number |-> i], node.event>>
            \o RepeatPasses(node, i + 1)

\* lines 805-819: does the current repetition fall in one of the ranges
should_play(state, node) ==
    \E k \in DOMAIN node.ranges :
        IF node.ranges[k].last = <<>>
        THEN state.repetition_number = node.ranges[k].first
        ELSE /\ node.ranges[k].first <= state.repetition_number
             /\ state.repetition_number <= node.ranges[k].last[1]

----------------------------------------------------------------------------
(* MidiGenerator: Lisp attribute forms *)

TempoNames == {"tempo", "tempo!"}
VolumeNames == {"vol", "volume", "vol!", "volume!"}
QuantNames == {"quant", "quantize", "quantization"}
OctaveNames == {"octave", "octave!"}
KeySigNames == {"key-sig", "key-signature", "key-sig!", "key-signature!"}
TransposeNames == {"transpose", "transpose!"}
GlobalNames == {"tempo!", "key-sig!", "key-signature!", "transpose!"}

\* the dynamics table of _process_lisp_list; 0 for a name that is not in it
Dynamics(name) ==
    CASE name = "pppppp" -> 1
      [] name = "ppppp" -> 10
      [] name = "pppp" -> 20
      [] name = "ppp" -> 30
      [] name = "pp" -> 39
      [] name = "p" -> 50
      [] name = "mp" -> 58
      [] name = "mf" -> 69
      [] name = "f" -> 79
      [] name = "ff" -> 88
      [] name = "fff" -> 98
      [] name = "ffff" -> 108
      [] name = "fffff" -> 117
      [] name = "ffffff" -> 127
      [] OTHER -> 0

\* min(127, max(0, int(int(value) * 127 / 100)))
PercentTo127(value) == Min(127, Max(0, RTrunc(Frac(RTrunc(value) * 127, 100))))

\* _parse_key_sig_string: tokens are lists of characters
RECURSIVE _parse_key_sig_string(_, _)
_parse_key_sig_string(tokens, key_sig) ==
    IF tokens = <<>> THEN key_sig
    ELSE
        LET token == Head(tokens)
            Has(ch) == \E k \in 2 .. Len(token) : token[k] = ch
            next ==
                IF token = <<>> \/ token[1] \notin {"a", "b", "c", "d", "e", "f", "g"}
                THEN key_sig
                ELSE IF Has("+") \/ Has("#") THEN DictSet(key_sig, token[1], "+")
                ELSE IF Has("-") \/ Has("b") THEN DictSet(key_sig, token[1], "-")
                ELSE key_sig
        IN _parse_key_sig_string(Tail(tokens), next)

\* _parse_key_signature for the argument forms of the modelled inputs: a
\* string, a quoted symbol, anything else.  _parse_key_sig_quoted reads
\* node.elements, which a quoted symbol does not have (AttributeError).
\* Result: [raised, none, key_sig].
_parse_key_signature(args) ==
    IF args = <<>> THEN [raised |-> FALSE, none |-> TRUE, key_sig |-> <<>>]
    ELSE IF Head(args).type = "LispString"
    THEN [raised |-> FALSE, none |-> FALSE,
          key_sig |-> _parse_key_sig_string(Head(args).tokens, <<>>)]
    ELSE IF Head(args).type = "LispQuoted"
    THEN [raised |-> Head(args).quoted.type = "LispSymbol", none |-> TRUE, key_sig |-> <<>>]
    ELSE [raised |-> FALSE, none |-> TRUE, key_sig |-> <<>>]

\* the form is one _process_lisp_list acts on: a known function name with
\* the argument it asks for
RecognizedForm(node) ==
    /\ node.elements # <<>>
    /\ Head(node.elements).type = "LispSymbol"
    /\ LET func_name == Head(node.elements).name
           args == Tail(node.elements)
           number == args # <<>> /\ Head(args).type = "LispNumber"
           UpDown(e) == e.type = "LispSymbol" /\ e.name \in {"up", "down"}
       IN \/ func_name \in TempoNames \cup VolumeNames \cup QuantNames
                            \cup {"panning"} \cup TransposeNames
             /\ number
          \/ /\ func_name \in OctaveNames
             /\ args # <<>>
             /\ \/ number
                \/ UpDown(Head(args))
                \/ Head(args).type = "LispQuoted" /\ UpDown(Head(args).quoted)
          \/ Dynamics(func_name) # 0
          \/ /\ func_name \in KeySigNames
             /\ ~_parse_key_signature(args).none

_process_lisp_list(state0, sequence, node) ==
    IF node.elements = <<>> \/ Head(node.elements).type # "LispSymbol"
    THEN Outcome(FALSE, state0, sequence)
    ELSE
      LET func_name == Head(node.elements).name
          args == Tail(node.elements)
          state == _get_all_part_states(state0)
          all_parts == state.current_parts
          every_part == SetToSeq(DOMAIN state.parts)
          number == args # <<>> /\ Head(args).type = "LispNumber"
          ToActive(F(_, _)) ==
              [state EXCEPT !.parts = ForEachPart(@, all_parts, F)]
          ToEvery(F(_, _)) ==
              [state EXCEPT !.parts = ForEachPart(@, every_part, F)]
          Unchanged == Outcome(FALSE, state, sequence)
      IN
      CASE func_name \in TempoNames ->
            IF ~number THEN Unchanged
            ELSE LET new_tempo == Head(args).value
                     SetTempo(part, n) == [part EXCEPT !.tempo = new_tempo]
                     change == MidiTempoChange(new_tempo,
                                               state.parts[all_parts[1]].current_time)
                 IN Outcome(FALSE,
                        IF func_name = "tempo!"
                        THEN [ToEvery(SetTempo) EXCEPT !.global_tempo = new_tempo]
                        ELSE ToActive(SetTempo),
                        [sequence EXCEPT !.tempo_changes = Append(@, change)])
        [] func_name \in VolumeNames ->
            IF ~number THEN Unchanged
            ELSE LET SetVolume(part, n) ==
                        [part EXCEPT !.volume = PercentTo127(Head(args).value)]
                 IN Outcome(FALSE, ToActive(SetVolume), sequence)
        [] func_name \in QuantNames ->
            IF ~number THEN Unchanged
            ELSE LET quantization ==
                        RMax(Whole(0), RMin(Whole(1), RDiv(Head(args).value, Whole(100))))
                     SetQuant(part, n) == [part EXCEPT !.quantization = quantization]
                 IN Outcome(FALSE, ToActive(SetQuant), sequence)
        [] func_name = "panning" ->
            IF ~number THEN Unchanged
            ELSE LET pan_value == PercentTo127(Head(args).value)
                     changes == [k \in 1 .. Len(all_parts) |->
                                    MidiControlChange(10, pan_value,
                                        state.parts[all_parts[k]].current_time,
                                        state.parts[all_parts[k]].channel)]
                 IN Outcome(FALSE, state,
                            [sequence EXCEPT !.control_changes = @ \o changes])
        [] func_name \in OctaveNames ->
            IF args = <<>> THEN Unchanged
            ELSE LET arg == Head(args)
                     symbol == IF arg.type = "LispSymbol" THEN arg.name
                               ELSE IF arg.type = "LispQuoted"
                                        /\ arg.quoted.type = "LispSymbol"
                                    THEN arg.quoted.name
                               ELSE "none"
                 IN IF arg.type = "LispNumber"
                    THEN Outcome(FALSE, SetOctave(state, RTrunc(arg.value)), sequence)
                    ELSE IF symbol = "up"
                    THEN Outcome(FALSE, ShiftOctave(state, 1), sequence)
                    ELSE IF symbol = "down"
                    THEN Outcome(FALSE, ShiftOctave(state, -1), sequence)
                    ELSE Unchanged
        [] Dynamics(func_name) # 0 ->
            LET SetVolume(part, n) == [part EXCEPT !.volume = Dynamics(func_name)]
            IN Outcome(FALSE, ToActive(SetVolume), sequence)
        [] func_name \in KeySigNames ->
            LET parsed == _parse_key_signature(args)
                SetKeySig(part, n) == [part EXCEPT !.key_signature = parsed.key_sig]
            IN IF parsed.raised THEN Outcome(TRUE, state, sequence)
               ELSE IF parsed.none THEN Unchanged
               ELSE Outcome(FALSE,
                        IF func_name \in GlobalNames THEN ToEvery(SetKeySig)
                        ELSE ToActive(SetKeySig),
                        sequence)
        [] func_name \in TransposeNames ->
            IF ~number THEN Unchanged
            ELSE LET SetTranspose(part, n) ==
                        [part EXCEPT !.transpose = RTrunc(Head(args).value)]
                 IN Outcome(FALSE,
                        IF func_name \in GlobalNames THEN ToEvery(SetTranspose)
                        ELSE ToActive(SetTranspose),
                        sequence)
        [] OTHER -> Unchanged

----------------------------------------------------------------------------
(* MidiGenerator: chords and crams *)

\* what _process_note returns: duration_secs of the last active part
NoteDuration(state, node) ==
    LET part == state.parts[state.current_parts[Len(state.current_parts)]]
    IN _beats_to_seconds(_calculate_duration(node.duration, part), part.tempo)

\* lines 405-407: every part at its start time plus the longest duration
AdvanceByMax(state, all_parts, start_times, max_duration) ==
    [state EXCEPT !.parts =
        [n \in DOMAIN @ |->
            IF n \in DOMAIN start_times
            THEN [@[n] EXCEPT !.current_time = RAdd(start_times[n], max_duration)]
            ELSE @[n]]]

\* lines 390-403: the loop over node.notes; a rest matches no branch
RECURSIVE ChordItems(_, _, _, _, _, _)
RECURSIVE ChordNote(_, _, _, _, _, _)
ChordItems(items, state, sequence, all_parts, start_times, max_duration) ==
    IF items = <<>>
    THEN Outcome(FALSE, AdvanceByMax(state, all_parts, start_times, max_duration), sequence)
    ELSE
        CASE Head(items).type = "Note" ->
                ChordNote(Tail(items), _process_note(state, sequence, Head(items), TRUE),
                          all_parts, start_times, max_duration,
                          IF CalculateDurationRaises(Head(items).duration)
                                \/ BeatsToSecondsRaises(
                                        state.parts[all_parts[Len(all_parts)]].tempo)
                          THEN Whole(0) ELSE NoteDuration(state, Head(items)))
          [] Head(items).type = "OctaveSet" ->
                ChordItems(Tail(items), SetOctave(state, Head(items).octave), sequence,
                           all_parts, start_times, max_duration)
          [] Head(items).type = "OctaveUp" ->
                ChordItems(Tail(items), ShiftOctave(state, 1), sequence,
                           all_parts, start_times, max_duration)
          [] Head(items).type = "OctaveDown" ->
                ChordItems(Tail(items), ShiftOctave(state, -1), sequence,
                           all_parts, start_times, max_duration)
          [] Head(items).type = "LispList" ->
                ChordNote(Tail(items), _process_lisp_list(state, sequence, Head(items)),
                          all_parts, start_times, max_duration, max_duration)
          [] OTHER ->
                ChordItems(Tail(items), state, sequence, all_parts, start_times,
                           max_duration)

\* lines 391-393: after the call for one item, max_duration = max(max_duration, duration)
ChordNote(items, outcome, all_parts, start_times, max_duration, duration) ==
    IF outcome.raised THEN outcome
    ELSE ChordItems(items, outcome.state, outcome.sequence, all_parts, start_times,
                    RMax(max_duration, duration))

\* lines 386-388: the active parts and their start times
ChordStart(node, with_parts, sequence) ==
    ChordItems(node.notes, with_parts, sequence, with_parts.current_parts,
               [n \in {with_parts.current_parts[k] : k \in DOMAIN with_parts.current_parts}
                    |-> with_parts.parts[n].current_time],
               Whole(0))

_process_chord(state, sequence, node) ==
    ChordStart(node, _get_all_part_states(state), sequence)

\* lines 879-896
RECURSIVE _count_sounding_events(_)
_count_sounding_events(events) ==
    IF events = <<>> THEN 0
    ELSE (CASE Head(events).type \in {"Note", "Rest", "Chord", "Cram"} -> 1
            [] Head(events).type = "BracketedSequence" ->
                    _count_sounding_events(Head(events).events)
            [] Head(events).type = "Repeat" ->
                    (IF Head(events).event.type = "BracketedSequence"
                     THEN _count_sounding_events(Head(events).event.events)
                     ELSE 1) * Head(events).times
            [] OTHER -> 0)
         + _count_sounding_events(Tail(events))

\* lines 785-786: p.default_duration = total_beats / event_count
SetDefaultDuration(state, beats) ==
    [state EXCEPT !.parts =
        [n \in DOMAIN @ |->
            IF Count(state.current_parts, n) > 0
            THEN [@[n] EXCEPT !.default_duration = beats]
            ELSE @[n]]]

\* lines 782 and 774: the saved states of a _process_cram call; state is the
\* state after _get_all_part_states()
CramFrame(state, total_secs) ==
    [all_parts |-> state.current_parts,
     saved_states |-> [n \in {state.current_parts[k] : k \in DOMAIN state.current_parts}
                        |-> <<state.parts[n].current_time,
                              state.parts[n].default_duration>>],
     total_secs |-> total_secs]

\* lines 791-794
RestoreAfterCram(state, frame) ==
    [state EXCEPT !.parts =
        [n \in DOMAIN @ |->
            IF n \in DOMAIN frame.saved_states
            THEN [@[n] EXCEPT
                    !.default_duration = frame.saved_states[n][2],
                    !.current_time = RAdd(frame.saved_states[n][1], frame.total_secs)]
            ELSE @[n]]]

----------------------------------------------------------------------------
(* MidiGenerator.generate: one step per node handed to _process_node.  The *)
(* agenda holds the nodes the enclosing loops have still to process.        *)

GeneratorIdle ==
    /\ g_ast = <<>>
    /\ g_agenda = <<>>
    /\ g_state = GeneratorState
    /\ g_sequence = MidiSequence(<<>>, <<>>, <<>>)
    /\ g_frames = <<>>
    /\ g_pc = "idle"
    /\ f_data = <<>>
    /\ f_seq = MidiSequence(<<>>, <<>>, <<>>)
    /\ f_pc = "none"

\* the next node is of the given type
AtNode(type) ==
    /\ g_pc = "running"
    /\ g_agenda # <<>>
    /\ Head(g_agenda).type = type

\* the step ends with the given outcome
Finish(outcome) ==
    /\ g_pc' = IF outcome.raised THEN "raised" ELSE "running"
    /\ g_state' = IF outcome.raised THEN g_state ELSE outcome.state
    /\ g_sequence' = IF outcome.raised THEN g_sequence ELSE outcome.sequence

\* lines 171-179: fresh state and sequence, the initial tempo change
Generate ==
    /\ g_pc = "start"
    /\ g_pc' = "running"
    /\ g_state' = GeneratorState
    /\ g_sequence' = [MidiSequence(<<>>, <<>>, <<>>) EXCEPT
                        !.tempo_changes = <<MidiTempoChange(Whole(120), Whole(0))>>]
    /\ g_agenda' = g_ast
    /\ UNCHANGED <<NotGenerator, g_frames, g_ast, f_data, f_seq, f_pc>>

ProcessPart ==
    /\ AtNode("Part")
    /\ Finish(_process_part(g_state, g_sequence, Head(g_agenda)))
    /\ g_agenda' = Head(g_agenda).events \o Tail(g_agenda)
    /\ UNCHANGED <<NotGenerator, g_frames, g_ast, f_data, f_seq, f_pc>>

ProcessEventSequence ==
    /\ AtNode("EventSequence")
    /\ g_agenda' = Head(g_agenda).events \o Tail(g_agenda)
    /\ UNCHANGED <<NotGenerator, g_frames, g_ast, g_state, g_sequence, g_pc, f_data, f_seq, f_pc>>

ProcessNote ==
    /\ AtNode("Note")
    /\ Finish(_process_note(g_state, g_sequence, Head(g_agenda), FALSE))
    /\ g_agenda' = Tail(g_agenda)
    /\ UNCHANGED <<NotGenerator, g_frames, g_ast, f_data, f_seq, f_pc>>

ProcessRest ==
    /\ AtNode("Rest")
    /\ Finish(_process_rest(g_state, g_sequence, Head(g_agenda)))
    /\ g_agenda' = Tail(g_agenda)
    /\ UNCHANGED <<NotGenerator, g_frames, g_ast, f_data, f_seq, f_pc>>

ProcessOctaveSet ==
    /\ AtNode("OctaveSet")
    /\ g_state' = SetOctave(g_state, Head(g_agenda).octave)
    /\ g_agenda' = Tail(g_agenda)
    /\ UNCHANGED <<NotGenerator, g_frames, g_ast, g_sequence, g_pc, f_data, f_seq, f_pc>>

ProcessOctaveUp ==
    /\ AtNode("OctaveUp")
    /\ g_state' = ShiftOctave(g_state, 1)
    /\ g_agenda' = Tail(g_agenda)
    /\ UNCHANGED <<NotGenerator, g_frames, g_ast, g_sequence, g_pc, f_data, f_seq, f_pc>>

ProcessOctaveDown ==
    /\ AtNode("OctaveDown")
    /\ g_state' = ShiftOctave(g_state, -1)
    /\ g_agenda' = Tail(g_agenda)
    /\ UNCHANGED <<NotGenerator, g_frames, g_ast, g_sequence, g_pc, f_data, f_seq, f_pc>>

ProcessBarline ==
    /\ AtNode("Barline")
    /\ g_agenda' = Tail(g_agenda)
    /\ UNCHANGED <<NotGenerator, g_frames, g_ast, g_state, g_sequence, g_pc, f_data, f_seq, f_pc>>

ProcessLispList ==
    /\ AtNode("LispList")
    /\ Finish(_process_lisp_list(g_state, g_sequence, Head(g_agenda)))
    /\ g_agenda' = Tail(g_agenda)
    /\ UNCHANGED <<NotGenerator, g_frames, g_ast, f_data, f_seq, f_pc>>

ProcessVariableDefinition ==
    /\ AtNode("VariableDefinition")
    /\ g_state' = _process_variable_definition(g_state, Head(g_agenda))
    /\ g_agenda' = Tail(g_agenda)
    /\ UNCHANGED <<NotGenerator, g_frames, g_ast, g_sequence, g_pc, f_data, f_seq, f_pc>>

\* lines 726-729: a defined name calls _process_event_sequence on the stored
\* events; the call raises RecursionError when the interpreter's stack is
\* used up by the references that have not returned yet
ProcessVariableReference ==
    /\ AtNode("VariableReference")
    /\ IF Head(g_agenda).name \notin DOMAIN g_state.variables
       THEN /\ g_agenda' = Tail(g_agenda)
            /\ g_pc' = g_pc
       ELSE IF ReferenceDepth(g_agenda) >= RecursionLimit
       THEN /\ g_agenda' = g_agenda
            /\ g_pc' = "raised"
       ELSE /\ g_agenda' = _process_variable_reference(g_state, Head(g_agenda))
                                \o <<[type |-> "ReferenceEnd"]>> \o Tail(g_agenda)
            /\ g_pc' = g_pc
    /\ UNCHANGED <<NotGenerator, g_frames, g_ast, g_state, g_sequence, f_data, f_seq, f_pc>>

\* line 729: _process_event_sequence has returned to _process_variable_reference
ReferenceEnd ==
    /\ AtNode("ReferenceEnd")
    /\ g_agenda' = Tail(g_agenda)
    /\ UNCHANGED <<NotGenerator, g_frames, g_ast, g_state, g_sequence, g_pc, f_data, f_seq, f_pc>>

\* lines 745-747: the voices are processed next, then lines 758-759
ProcessVoiceGroup ==
    /\ AtNode("VoiceGroup")
    /\ g_state' = _get_all_part_states(g_state)
    /\ g_frames' = <<VoiceFrame(_get_all_part_states(g_state))>> \o g_frames
    /\ g_agenda' = Head(g_agenda).voices \o <<[type |-> "VoiceGroupEnd"]>> \o Tail(g_agenda)
    /\ UNCHANGED <<NotGenerator, g_ast, g_sequence, g_pc, f_data, f_seq, f_pc>>

\* lines 749-753: one voice begins
ProcessVoice ==
    /\ AtNode("Voice")
    /\ g_state' = ResetToStart(g_state, Head(g_frames))
    /\ g_agenda' = Head(g_agenda).events \o <<[type |-> "VoiceEnd"]>> \o Tail(g_agenda)
    /\ UNCHANGED <<NotGenerator, g_frames, g_ast, g_sequence, g_pc, f_data, f_seq, f_pc>>

\* lines 754-755: one voice has been processed
VoiceEnd ==
    /\ AtNode("VoiceEnd")
    /\ g_frames' = <<[Head(g_frames) EXCEPT
                        !.max_end_time =
                            MaxCurrentTime(g_state, Head(g_frames).all_parts, @),
                        !.voice_ends =
                            Append(@, [n \in DOMAIN Head(g_frames).start_times |->
                                            g_state.parts[n].current_time])]>>
                    \o Tail(g_frames)
    /\ g_agenda' = Tail(g_agenda)
    /\ UNCHANGED <<NotGenerator, g_ast, g_state, g_sequence, g_pc, f_data, f_seq, f_pc>>

\* lines 758-759: the voice group returns
VoiceGroupEnd ==
    /\ AtNode("VoiceGroupEnd")
    /\ g_state' = AdvanceToEnd(g_state, Head(g_frames))
    /\ g_frames' = Tail(g_frames)
    /\ g_agenda' = Tail(g_agenda)
    /\ UNCHANGED <<NotGenerator, g_ast, g_sequence, g_pc, f_data, f_seq, f_pc>>

\* line 249: _process_event_sequence(node.events)
ProcessBracketedSequence ==
    /\ AtNode("BracketedSequence")
    /\ g_agenda' = Head(g_agenda).events \o Tail(g_agenda)
    /\ UNCHANGED <<NotGenerator, g_frames, g_ast, g_state, g_sequence, g_pc, f_data, f_seq, f_pc>>

\* lines 798-801: the passes are processed next, then line 801
ProcessRepeat ==
    /\ AtNode("Repeat")
    /\ g_agenda' = RepeatPasses(Head(g_agenda), 1)
                    \o <<[type |-> "RepeatEnd", times |-> Head(g_agenda).times]>>
                    \o Tail(g_agenda)
    /\ UNCHANGED <<NotGenerator, g_frames, g_ast, g_state, g_sequence, g_pc, f_data, f_seq, f_pc>>

\* line 799: self.state.repetition_number = i + 1
RepeatPass ==
    /\ AtNode("RepeatPass")
    /\ g_state' = [g_state EXCEPT !.repetition_number = Head(g_agenda).number]
    /\ g_agenda' = Tail(g_agenda)
    /\ UNCHANGED <<NotGenerator, g_frames, g_ast, g_sequence, g_pc, f_data, f_seq, f_pc>>

\* line 801: self.state.repetition_number = 1
RepeatEnd ==
    /\ AtNode("RepeatEnd")
    /\ g_state' = [g_state EXCEPT !.repetition_number = 1]
    /\ g_agenda' = Tail(g_agenda)
    /\ UNCHANGED <<NotGenerator, g_frames, g_ast, g_sequence, g_pc, f_data, f_seq, f_pc>>

\* lines 803-822
ProcessOnRepetitions ==
    /\ AtNode("OnRepetitions")
    /\ g_agenda' = (IF should_play(g_state, Head(g_agenda))
                    THEN <<Head(g_agenda).event>> ELSE <<>>) \o Tail(g_agenda)
    /\ UNCHANGED <<NotGenerator, g_frames, g_ast, g_state, g_sequence, g_pc, f_data, f_seq, f_pc>>

\* lines 763-783: the cram's duration and its count of events; the inner
\* events are processed next, then lines 791-794
ProcessCram ==
    /\ AtNode("Cram")
    /\ \E with_parts \in {_get_all_part_states(g_state)} :
        \E part \in {with_parts.parts[Head(with_parts.current_parts)]} :
            IF CalculateDurationRaises(Head(g_agenda).duration)
                    \/ BeatsToSecondsRaises(part.tempo)
            THEN /\ g_pc' = "raised"
                 /\ UNCHANGED <<g_state, g_agenda, g_frames>>
            ELSE \E total_beats \in {_calculate_duration(Head(g_agenda).duration, part)},
                    event_count \in {_count_sounding_events(Head(g_agenda).events)} :
                    /\ g_pc' = g_pc
                    /\ IF event_count = 0
                       THEN /\ g_state' = with_parts
                            /\ g_agenda' = Tail(g_agenda)
                            /\ g_frames' = g_frames
                       ELSE /\ g_state' = SetDefaultDuration(
                                    with_parts, RDiv(total_beats, Whole(event_count)))
                            /\ g_agenda' = Head(g_agenda).events
                                    \o <<[type |-> "CramEnd"]>> \o Tail(g_agenda)
                            /\ g_frames' =
                                    <<CramFrame(with_parts,
                                                _beats_to_seconds(total_beats, part.tempo))>>
                                    \o g_frames
    /\ UNCHANGED <<NotGenerator, g_ast, g_sequence, f_data, f_seq, f_pc>>

\* lines 791-794: the cram returns
CramEnd ==
    /\ AtNode("CramEnd")
    /\ g_state' = RestoreAfterCram(g_state, Head(g_frames))
    /\ g_frames' = Tail(g_frames)
    /\ g_agenda' = Tail(g_agenda)
    /\ UNCHANGED <<NotGenerator, g_ast, g_sequence, g_pc, f_data, f_seq, f_pc>>

\* lines 383-408
ProcessChord ==
    /\ AtNode("Chord")
    /\ Finish(_process_chord(g_state, g_sequence, Head(g_agenda)))
    /\ g_agenda' = Tail(g_agenda)
    /\ UNCHANGED <<NotGenerator, g_frames, g_ast, f_data, f_seq, f_pc>>

\* lines 182-187: the three sorts, then the return
GenerateReturn ==
    /\ g_pc = "running"
    /\ g_agenda = <<>>
    /\ g_sequence' = [g_sequence EXCEPT
                        !.notes = SortByStartTime(@),
                        !.program_changes = SortByTime(@),
                        !.tempo_changes = SortByTime(@)]
    /\ g_pc' = "returned"
    /\ UNCHANGED <<NotGenerator, g_frames, g_ast, g_agenda, g_state, f_data, f_seq, f_pc>>

----------------------------------------------------------------------------
(* Standard MIDI File writer (pyalda/midi/smf.py).  Bytes are 0 .. 255, a   *)
(* file or a track is a list of bytes, a track event is [tick, data].       *)

\* struct.pack(">H", n) and struct.pack(">I", n), for n in range
Pack16(n) == <<(n \div 256) % 256, n % 256>>

Pack32(n) == <<(n \div 16777216) % 256, (n \div 65536) % 256, (n \div 256) % 256, n % 256>>

\* the 7-bit groups of a positive value, most significant first
RECURSIVE Base128(_)
Base128(value) ==
    IF value = 0 THEN <<>> ELSE Append(Base128(value \div 128), value % 128)

\* for value >= 0
_write_variable_length(value) ==
    IF value = 0 THEN <<0>>
    ELSE LET result == Base128(value)
         IN [i \in 1 .. Len(result) |->
                IF i < Len(result) THEN result[i] + 128 ELSE result[i]]

\* for tempo_us # 0
_seconds_to_ticks(seconds, ticks_per_beat, tempo_us) ==
    RTrunc(RMul(RDiv(RMul(seconds, Whole(1000000)), Whole(tempo_us)), Whole(ticks_per_beat)))

\* for bpm # 0
_bpm_to_tempo(bpm) == RTrunc(RDiv(Whole(60000000), bpm))

TrackEvent(tick, data) == [tick |-> tick, data |-> data]

RECURSIVE MaxTick(_)
MaxTick(events) ==
    IF events = <<>> THEN 0
    ELSE IF Len(events) = 1 THEN events[1].tick
    ELSE Max(Head(events).tick, MaxTick(Tail(events)))

EndOfTrack(events) == Append(events, TrackEvent(MaxTick(events), <<255, 47, 0>>))

RECURSIVE EncodeFrom(_, _)
EncodeFrom(events, last_tick) ==
    IF events = <<>> THEN <<>>
    ELSE _write_variable_length(Max(0, Head(events).tick - last_tick))
            \o Head(events).data
            \o EncodeFrom(Tail(events), Head(events).tick)

_encode_track_events(events) == EncodeFrom(events, 0)

_build_header(num_tracks, ticks_per_beat) ==
    <<77, 84, 104, 100>> \o Pack32(6)
        \o Pack16(1) \o Pack16(num_tracks) \o Pack16(ticks_per_beat)

_build_track_chunk(track_data) ==
    <<77, 84, 114, 107>> \o Pack32(Len(track_data)) \o track_data

\* the loop of _build_tempo_track over the sorted tempo changes
RECURSIVE TempoEvents(_, _, _)
TempoEvents(tcs, ticks_per_beat, current_tempo_us) ==
    IF tcs = <<>> THEN <<>>
    ELSE LET tempo_us == _bpm_to_tempo(Head(tcs).bpm)
             tick == _seconds_to_ticks(Head(tcs).time, ticks_per_beat, current_tempo_us)
         IN <<TrackEvent(tick, <<255, 81, 3>> \o Tail(Pack32(tempo_us)))>>
                \o TempoEvents(Tail(tcs), ticks_per_beat, tempo_us)

_build_tempo_track(sequence) ==
    _encode_track_events(EndOfTrack(
        IF sequence.tempo_changes # <<>>
        THEN TempoEvents(SortByTime(sequence.tempo_changes), sequence.ticks_per_beat, 500000)
        ELSE <<TrackEvent(0, <<255, 81, 3>> \o Tail(Pack32(500000)))>>))

\* the events of one channel taken from a list by Event(element)
OfChannel(list, channel, Event(_)) ==
    Concat([k \in 1 .. Len(list) |->
                IF list[k].channel = channel THEN Event(list[k]) ELSE <<>>])

\* events.sort(key=lambda e: (e[0], e[1][0] & 0xF0 != 0x80))
SortTrackEvents(events) ==
    LET Key(e) == 2 * e.tick + (IF e.data[1] \div 16 # 8 THEN 1 ELSE 0)
        sorted == StableSort([k \in 1 .. Len(events) |->
                                [key |-> Whole(Key(events[k])), val |-> events[k]]])
    IN [k \in 1 .. Len(events) |-> sorted[k].val]

\* lines 147-190: the events of the channel, sorted
ChannelTrackEvents(sequence, channel, default_tempo_us) ==
    LET Tick(seconds) == _seconds_to_ticks(seconds, sequence.ticks_per_beat, default_tempo_us)
        Program(pc) ==
            <<TrackEvent(Tick(pc.time), <<192 + (channel % 16), pc.program % 128>>)>>
        Control(cc) ==
            <<TrackEvent(Tick(cc.time),
                         <<176 + (channel % 16), cc.control % 128, cc.value % 128>>)>>
        Note(note) ==
            <<TrackEvent(Tick(note.start_time),
                         <<144 + (channel % 16), note.pitch % 128, note.velocity % 128>>),
              TrackEvent(Tick(RAdd(note.start_time, note.duration)),
                         <<128 + (channel % 16), note.pitch % 128, 0>>)>>
    IN SortTrackEvents(
            OfChannel(sequence.program_changes, channel, Program)
                \o OfChannel(sequence.control_changes, channel, Control)
                \o OfChannel(sequence.notes, channel, Note))

\* lines 192-197: the end of track, then the encoding
_build_channel_track(sequence, channel, default_tempo_us) ==
    _encode_track_events(EndOfTrack(
        ChannelTrackEvents(sequence, channel, default_tempo_us)))

\* sorted(channels.keys())
RECURSIVE SortedChannels(_)
SortedChannels(S) ==
    IF S = {} THEN <<>>
    ELSE LET least == CHOOSE c \in S : \A d \in S : c <= d
         IN <<least>> \o SortedChannels(S \ {least})

\* write_midi_file raises: _bpm_to_tempo divides by a bpm of 0, struct.pack
\* rejects a negative tempo, _seconds_to_ticks divides by a tempo of 0 us
WriteRaises(sequence) ==
    LET tcs == SortByTime(sequence.tempo_changes)
    IN \/ \E k \in DOMAIN tcs :
            \/ tcs[k].bpm[1] = 0
            \/ _bpm_to_tempo(tcs[k].bpm) < 0
            \/ k < Len(tcs) /\ _bpm_to_tempo(tcs[k].bpm) = 0
       \/ /\ sequence.tempo_changes # <<>>
          /\ sequence.tempo_changes[1].bpm[1] # 0
          /\ _bpm_to_tempo(sequence.tempo_changes[1].bpm) = 0
          /\ Len(sequence.notes) + Len(sequence.program_changes) > 0

\* the bytes written, for a sequence on which WriteRaises is false
write_midi_file(sequence) ==
    LET channels == {sequence.notes[k].channel : k \in DOMAIN sequence.notes}
                    \cup {sequence.program_changes[k].channel :
                            k \in DOMAIN sequence.program_changes}
        default_tempo_us == IF sequence.tempo_changes # <<>>
                            THEN _bpm_to_tempo(sequence.tempo_changes[1].bpm)
                            ELSE 500000
        order == SortedChannels(channels)
        tracks == <<_build_tempo_track(sequence)>>
                    \o [k \in 1 .. Len(order) |->
                            _build_channel_track(sequence, order[k], default_tempo_us)]
    IN _build_header(Len(tracks), sequence.ticks_per_beat)
        \o Concat([k \in 1 .. Len(tracks) |-> _build_track_chunk(tracks[k])])

----------------------------------------------------------------------------
(* Standard MIDI File reader (aldakit/midi/smf_reader.py).  Offsets count   *)
(* from 0 as in the source; data[offset] is Byte(data, offset).             *)

Byte(data, offset) == data[offset + 1]

\* data[from:to]; a slice stops silently at the end of the data
Slice(data, from, to) ==
    IF from >= Min(to, Len(data)) THEN <<>> ELSE SubSeq(data, from + 1, Min(to, Len(data)))

Unpack16(bytes) == bytes[1] * 256 + bytes[2]

Unpack32(bytes) == ((bytes[1] * 256 + bytes[2]) * 256 + bytes[3]) * 256 + bytes[4]

NoStatus == 256         \* running_status is None

Failed(error) == [error |-> error, value |-> 0, consumed |-> 0, events |-> <<>>]

RECURSIVE ReadVLQ(_, _, _, _)
ReadVLQ(data, offset, value, bytes_consumed) ==
    IF offset + bytes_consumed >= Len(data) THEN Failed("MidiParseError")
    ELSE LET byte == Byte(data, offset + bytes_consumed)
             next == value * 128 + (byte % 128)
         IN IF byte < 128
            THEN [error |-> "none", value |-> next, consumed |-> bytes_consumed + 1,
                  events |-> <<>>]
            ELSE IF bytes_consumed + 1 > 4 THEN Failed("MidiParseError")
            ELSE ReadVLQ(data, offset, next, bytes_consumed + 1)

_read_variable_length(data, offset) == ReadVLQ(data, offset, 0, 0)

\* the while loop of _parse_track_events; the result is [error, events]
RECURSIVE ParseEvents(_, _, _, _, _)

\* the rest of one iteration, from the status byte on: offset is the offset
\* of the event's first data byte, length the variable-length quantity that a
\* meta or sysex event carries
ParseEvent(track_data, offset, absolute_tick, status_byte, running_status, events, length) ==
    LET Continue(next_offset, event_data) ==
            ParseEvents(track_data, next_offset, absolute_tick, running_status,
                        Append(events, TrackEvent(absolute_tick, event_data)))
        Done == [error |-> "none", value |-> 0, consumed |-> 0, events |-> events]
        body == (IF status_byte = 255 THEN offset + 1 ELSE offset) + length.consumed
    IN
    IF status_byte = 255
    THEN IF offset + 1 >= Len(track_data) THEN Done
         ELSE IF length.error # "none" THEN Failed(length.error)
         ELSE IF length.value > 255 THEN Failed("ValueError")
         ELSE Continue(body + length.value,
                       <<255, Byte(track_data, offset), length.value>>
                            \o Slice(track_data, body, body + length.value))
    ELSE IF status_byte \in {240, 247}
    THEN IF length.error # "none" THEN Failed(length.error)
         ELSE IF length.value > 255 THEN Failed("ValueError")
         ELSE Continue(body + length.value,
                       <<status_byte, length.value>>
                            \o Slice(track_data, body, body + length.value))
    ELSE IF status_byte >= 128 /\ status_byte <= 239
    THEN IF status_byte \div 16 \in {8, 9, 10, 11, 14}
         THEN IF offset + 1 >= Len(track_data) THEN Done
              ELSE Continue(offset + 2,
                            <<status_byte, Byte(track_data, offset),
                              Byte(track_data, offset + 1)>>)
         ELSE IF offset >= Len(track_data) THEN Done
              ELSE Continue(offset + 1, <<status_byte, Byte(track_data, offset)>>)
    ELSE Continue(offset, <<status_byte>>)

\* the status byte of the event at offset1, with running status: first is
\* track_data[offset1]
ParseStatus(track_data, offset1, absolute_tick, running0, events, first) ==
    IF first < 128 /\ running0 = NoStatus THEN Failed("MidiParseError")
    ELSE IF first < 128
    THEN ParseEvent(track_data, offset1, absolute_tick, running0, running0, events,
                    _read_variable_length(track_data,
                        IF running0 = 255 THEN offset1 + 1 ELSE offset1))
    ELSE ParseEvent(track_data, offset1 + 1, absolute_tick, first,
                    IF first < 240 THEN first ELSE running0, events,
                    _read_variable_length(track_data,
                        IF first = 255 THEN offset1 + 2 ELSE offset1 + 1))

\* one iteration, after the delta time has been read
ParseDelta(track_data, tick0, running0, events, offset1, delta) ==
    IF delta.error # "none" THEN Failed(delta.error)
    ELSE IF offset1 >= Len(track_data)
    THEN [error |-> "none", value |-> 0, consumed |-> 0, events |-> events]
    ELSE ParseStatus(track_data, offset1, tick0 + delta.value, running0, events,
                     Byte(track_data, offset1))

ParseEvents(track_data, offset0, tick0, running0, events) ==
    IF offset0 >= Len(track_data)
    THEN [error |-> "none", value |-> 0, consumed |-> 0, events |-> events]
    ELSE ParseDelta(track_data, tick0, running0, events,
                    offset0 + _read_variable_length(track_data, offset0).consumed,
                    _read_variable_length(track_data, offset0))

_parse_track_events(track_data) == ParseEvents(track_data, 0, 0, NoStatus, <<>>)

\* the tempo events of one track, as [tick, tempo_us]
RECURSIVE TempoEventsOf(_)
TempoEventsOf(events) ==
    IF events = <<>> THEN <<>>
    ELSE LET d == Head(events).data
         IN (IF Len(d) >= 6 /\ d[1] = 255 /\ d[2] = 81
             THEN <<[tick |-> Head(events).tick,
                     tempo_us |-> (d[4] * 256 + d[5]) * 256 + d[6]]>>
             ELSE <<>>)
            \o TempoEventsOf(Tail(events))

_build_tempo_map(tracks_data) ==
    LET tempo_events == Concat([k \in 1 .. Len(tracks_data) |->
                                    TempoEventsOf(tracks_data[k])])
        sorted == StableSort([k \in 1 .. Len(tempo_events) |->
                                [key |-> Whole(tempo_events[k].tick), val |-> tempo_events[k]]])
    IN IF tempo_events = <<>> THEN <<[tick |-> 0, tempo_us |-> 500000]>>
       ELSE [k \in 1 .. Len(sorted) |-> sorted[k].val]

_ticks_to_seconds(tick, ticks_per_beat, tempo_us) ==
    RDiv(RMul(Frac(tick, ticks_per_beat), Whole(tempo_us)), Whole(1000000))

\* the loop of _tick_to_seconds_with_tempo_map
RECURSIVE TickToSeconds(_, _, _, _, _, _)
TickToSeconds(tick, tempo_map, ticks_per_beat, seconds, last_tick, last_tempo_us) ==
    IF tempo_map = <<>> \/ Head(tempo_map).tick >= tick
    THEN RAdd(seconds, _ticks_to_seconds(tick - last_tick, ticks_per_beat, last_tempo_us))
    ELSE TickToSeconds(tick, Tail(tempo_map), ticks_per_beat,
            RAdd(seconds, _ticks_to_seconds(Head(tempo_map).tick - last_tick,
                                            ticks_per_beat, last_tempo_us)),
            Head(tempo_map).tick, Head(tempo_map).tempo_us)

\* for ticks_per_beat # 0
_tick_to_seconds_with_tempo_map(tick, tempo_map, ticks_per_beat) ==
    TickToSeconds(tick, tempo_map, ticks_per_beat, Whole(0), 0, 500000)

\* the loop of _process_track_events; pending_notes maps <<channel, pitch>>
\* to the pending note [velocity, start_tick]
RECURSIVE ProcessEvents(_, _, _, _, _)
ProcessEvents(events, tempo_map, ticks_per_beat, sequence, pending_notes) ==
    IF events = <<>> THEN sequence
    ELSE
      LET tick == Head(events).tick
          event_data == Head(events).data
          status_byte == event_data[1]
          channel == status_byte % 16
          msg_type == status_byte \div 16
          Seconds(t) == _tick_to_seconds_with_tempo_map(t, tempo_map, ticks_per_beat)
          key == <<channel, event_data[2]>>
          Next(seq, pending) ==
              ProcessEvents(Tail(events), tempo_map, ticks_per_beat, seq, pending)
          Skip == Next(sequence, pending_notes)
          \* pending_notes.pop(key) and the note appended for it
          EndNote ==
              IF key \in DOMAIN pending_notes
              THEN LET pending == pending_notes[key]
                       start_seconds == Seconds(pending.start_tick)
                       duration == RSub(Seconds(tick), start_seconds)
                   IN Next([sequence EXCEPT !.notes = Append(@,
                                MidiNote(key[2], pending.velocity, start_seconds,
                                         RMax(Frac(1, 1000), duration), key[1]))],
                           [k \in DOMAIN pending_notes \ {key} |-> pending_notes[k]])
              ELSE Skip
      IN
      IF event_data = <<>> THEN Skip
      ELSE IF status_byte = 255
      THEN IF Len(event_data) >= 6 /\ event_data[2] = 81
           THEN LET tempo_us == (event_data[4] * 256 + event_data[5]) * 256 + event_data[6]
                IN Next([sequence EXCEPT !.tempo_changes = Append(@,
                            MidiTempoChange(Frac(60000000, tempo_us), Seconds(tick)))],
                        pending_notes)
           ELSE Skip
      ELSE IF status_byte >= 128 /\ status_byte <= 239
      THEN IF msg_type = 9 /\ Len(event_data) >= 3
           THEN IF event_data[3] = 0 THEN EndNote
                ELSE Next(sequence,
                          DictSet(pending_notes, key,
                                  [velocity |-> event_data[3], start_tick |-> tick]))
           ELSE IF msg_type = 8 /\ Len(event_data) >= 3 THEN EndNote
           ELSE IF msg_type = 12 /\ Len(event_data) >= 2
           THEN Next([sequence EXCEPT !.program_changes = Append(@,
                        MidiProgramChange(event_data[2], Seconds(tick), channel))],
                     pending_notes)
           ELSE IF msg_type = 11 /\ Len(event_data) >= 3
           THEN Next([sequence EXCEPT !.control_changes = Append(@,
                        MidiControlChange(event_data[2], event_data[3], Seconds(tick),
                                          channel))],
                     pending_notes)
           ELSE Skip
      ELSE Skip

\* _process_track_events converts a tick of the list to seconds; pending is
\* the set of keys of pending_notes
RECURSIVE ConvertsTicks(_, _)
ConvertsTicks(events, pending) ==
    IF events = <<>> THEN FALSE
    ELSE
      LET d == Head(events).data
          key == <<d[1] % 16, d[2]>>
      IN IF d = <<>> THEN ConvertsTicks(Tail(events), pending)
         ELSE IF d[1] = 255
         THEN (Len(d) >= 6 /\ d[2] = 81) \/ ConvertsTicks(Tail(events), pending)
         ELSE IF d[1] >= 128 /\ d[1] <= 239
         THEN IF d[1] \div 16 = 9 /\ Len(d) >= 3 /\ d[3] # 0
              THEN ConvertsTicks(Tail(events), pending \cup {key})
              ELSE IF d[1] \div 16 \in {8, 9} /\ Len(d) >= 3
              THEN key \in pending \/ ConvertsTicks(Tail(events), pending)
              ELSE IF d[1] \div 16 = 12 /\ Len(d) >= 2 THEN TRUE
              ELSE IF d[1] \div 16 = 11 /\ Len(d) >= 3 THEN TRUE
              ELSE ConvertsTicks(Tail(events), pending)
         ELSE ConvertsTicks(Tail(events), pending)

_process_track_events(events, tempo_map, ticks_per_beat, sequence) ==
    ProcessEvents(events, tempo_map, ticks_per_beat, sequence, <<>>)

\* the loop of read_midi_file over the track chunks; the result is
\* [error, events] with events the list of the tracks' event lists
RECURSIVE ReadTracks(_, _, _, _)

\* one track chunk of track_length bytes, parsed
ReadTrack(data, offset, num_tracks, tracks_data, track_length, parsed) ==
    IF parsed.error # "none" THEN Failed(parsed.error)
    ELSE ReadTracks(data, offset + 8 + track_length, num_tracks - 1,
                    Append(tracks_data, parsed.events))

ReadTracks(data, offset, num_tracks, tracks_data) ==
    IF num_tracks = 0
    THEN [error |-> "none", value |-> 0, consumed |-> 0, events |-> tracks_data]
    ELSE IF offset + 8 > Len(data) THEN Failed("MidiParseError")
    ELSE IF Slice(data, offset, offset + 4) # <<77, 84, 114, 107>>
    THEN Failed("MidiParseError")
    ELSE ReadTrack(data, offset, num_tracks, tracks_data,
                   Unpack32(Slice(data, offset + 4, offset + 8)),
                   _parse_track_events(
                        Slice(data, offset + 8,
                              offset + 8 + Unpack32(Slice(data, offset + 4, offset + 8)))))

RECURSIVE ProcessTracks(_, _, _, _)
ProcessTracks(tracks_data, tempo_map, ticks_per_beat, sequence) ==
    IF tracks_data = <<>> THEN sequence
    ELSE ProcessTracks(Tail(tracks_data), tempo_map, ticks_per_beat,
            _process_track_events(Head(tracks_data), tempo_map, ticks_per_beat, sequence))

\* the second pass of read_midi_file over the parsed tracks, and the final
\* sort of the notes.  A time division of 0 divides by zero in
\* _ticks_to_seconds.
ReadSequence(tracks_data, time_division) ==
    IF time_division = 0
        /\ \E k \in DOMAIN tracks_data : ConvertsTicks(tracks_data[k], {})
    THEN [error |-> "ZeroDivisionError", sequence |-> MidiSequence(<<>>, <<>>, <<>>)]
    ELSE [error |-> "none",
          sequence |->
            [ProcessTracks(tracks_data, _build_tempo_map(tracks_data), time_division,
                           [MidiSequence(<<>>, <<>>, <<>>) EXCEPT
                                !.ticks_per_beat = time_division])
             EXCEPT !.notes = SortByStartTime(@)]]

\* the first pass of read_midi_file, from the parsed track chunks on
ReadParsed(tracks, time_division) ==
    IF tracks.error # "none"
    THEN [error |-> tracks.error, sequence |-> MidiSequence(<<>>, <<>>, <<>>)]
    ELSE ReadSequence(tracks.events, time_division)

\* the result is [error, sequence]; the sequence is returned when error is
\* "none"
read_midi_file(data) ==
    LET Raise(error) == [error |-> error, sequence |-> MidiSequence(<<>>, <<>>, <<>>)]
    IN IF Len(data) < 14 THEN Raise("MidiParseError")
       ELSE IF Slice(data, 0, 4) # <<77, 84, 104, 100>> THEN Raise("MidiParseError")
       ELSE IF Unpack32(Slice(data, 4, 8)) < 6 THEN Raise("MidiParseError")
       ELSE IF Unpack16(Slice(data, 12, 14)) >= 32768 THEN Raise("MidiParseError")
       ELSE ReadParsed(ReadTracks(data, 8 + Unpack32(Slice(data, 4, 8)),
                                  Unpack16(Slice(data, 10, 12)), <<>>),
                       Unpack16(Slice(data, 12, 14)))

----------------------------------------------------------------------------
(* The file written from the generated sequence, and read back *)

WriteMidiFile ==
    /\ g_pc = "returned"
    /\ f_pc = "none"
    /\ IF WriteRaises(g_sequence)
       THEN f_pc' = "write_raised" /\ f_data' = <<>>
       ELSE f_pc' = "written" /\ f_data' = write_midi_file(g_sequence)
    /\ UNCHANGED <<NotGenerator, g_frames, g_ast, g_agenda, g_state, g_sequence, g_pc, f_seq>>

ReadMidiFile ==
    /\ f_pc = "written"
    /\ \E result \in {read_midi_file(f_data)} :
          /\ f_pc' = IF result.error = "none" THEN "read" ELSE result.error
          /\ f_seq' = result.sequence
    /\ UNCHANGED <<NotGenerator, g_frames, g_ast, g_agenda, g_state, g_sequence, g_pc, f_data>>

----------------------------------------------------------------------------
(* State of the playback manager *)

PlaybackSlot ==
    [active |-> FALSE, events |-> <<>>, event_index |-> 0,
     stop_requested |-> FALSE, thread |-> NoThread,
     play |-> 0]        \* play: the call whose events the slot holds (ghost)

IdleCaller ==
    [pc |-> "idle", op |-> "none", id |-> 0, slot |-> NoSlot, events |-> <<>>,
     j |-> 0, ch |-> 0, signalled |-> {}, timed_out |-> FALSE]

UnbornWorker ==
    [pc |-> "unborn", slot |-> NoSlot, evs |-> <<>>, evplay |-> 0, i |-> 0]

CallerThread(c) == <<"caller", c>>
WorkerThread(t) == <<"worker", t>>

\* Thread.is_alive(): started and not yet terminated
is_alive(t) == workers[t].pc \notin {"unborn", "created", "finished"}

active_count == Cardinality({s \in SlotIds : slots[s].active})

is_playing == active_count > 0

\* first slot of the pool that is not active, NoSlot if there is none
_find_free_slot ==
    IF \E s \in SlotIds : ~slots[s].active
    THEN CHOOSE s \in SlotIds :
            /\ ~slots[s].active
            /\ \A r \in SlotIds : ~slots[r].active => s <= r
    ELSE NoSlot

\* an idle caller thread may issue a call while calls remain; idle callers
\* are interchangeable, so the lowest-numbered idle one issues it
CanCall(c) ==
    /\ callers[c].pc = "idle"
    /\ \A d \in CallerIds : d < c => callers[d].pc # "idle"
    /\ ncalls < MaxCalls

PlaybackInit ==
    /\ slots = [s \in SlotIds |-> PlaybackSlot]
    /\ shutdown = FALSE
    /\ concurrent_mode \in BOOLEAN
    /\ callers = [c \in CallerIds |-> IdleCaller]
    /\ workers = [t \in CallIds |-> UnbornWorker]
    /\ midi_lock = NoHolder
    /\ sink = {}
    /\ dispatched = [p \in CallIds |-> <<>>]
    /\ play_events = [p \in CallIds |-> <<>>]
    /\ results = [p \in CallIds |-> Pending]
    /\ interrupted = FALSE
    /\ ncalls = 0

BuildIdle ==
    /\ b_seq = EmptySequence
    /\ b_events = <<>>
    /\ b_pc = "idle"

Init == PlaybackInit /\ BuildIdle /\ GeneratorIdle /\ ParserIdle /\ ScannerIdle

----------------------------------------------------------------------------
(* The output sink: LibremidiBackend._send_* *)

\* a send that does not take the lock
MidiLockFree_NoLock == TRUE

\* `with self._midi_lock:` can be entered
MidiLockFree == midi_lock = NoHolder

\* enter `with self._midi_lock:` and the call of _midi_out.send_message
EnterSend(th) ==
    /\ MidiLockFree
    /\ midi_lock' = th
    /\ sink' = sink \cup {th}

\* send_message returns and the with-block is left
LeaveSend(th) ==
    /\ sink' = sink \ {th}
    /\ midi_lock' = IF midi_lock = th THEN NoHolder ELSE midi_lock

----------------------------------------------------------------------------
(* play() *)

\* lines 227-228: the call and its shutdown test
CallPlay(c, seq) ==
    /\ CanCall(c)
    /\ ncalls' = ncalls + 1
    /\ IF shutdown
       THEN /\ results' = [results EXCEPT ![ncalls + 1] = NoSlot]
            /\ callers' = [callers EXCEPT ![c] =
                    [IdleCaller EXCEPT !.pc = "done", !.op = "play", !.id = ncalls + 1]]
            /\ UNCHANGED play_events
       ELSE /\ callers' = [callers EXCEPT ![c] =
                    [IdleCaller EXCEPT !.pc = "play_mode", !.op = "play",
                                       !.id = ncalls + 1]]
            \* the argument is kept as the event list it will be flattened to
            /\ play_events' = [play_events EXCEPT ![ncalls + 1] = _build_events(seq)]
            /\ UNCHANGED results
    /\ UNCHANGED <<NotPlayback, slots, shutdown, concurrent_mode, workers, midi_lock, sink,
                   dispatched, interrupted>>

\* lines 231-233: sequential mode polls is_playing() until it is false
PlayModeWait(c) ==
    /\ callers[c].pc = "play_mode"
    /\ concurrent_mode \/ ~is_playing
    /\ callers' = [callers EXCEPT ![c].pc = "play_find"]
    /\ UNCHANGED <<NotPlayback, slots, shutdown, concurrent_mode, workers, midi_lock, sink,
                   dispatched, play_events, results, interrupted, ncalls>>

\* lines 236-243: _find_free_slot under the lock, then _build_events
PlayFindSlot(c) ==
    /\ callers[c].pc = "play_find"
    /\ LET slot == _find_free_slot
           events == play_events[callers[c].id]
       IN IF slot = NoSlot \/ events = <<>>
          THEN /\ results' = [results EXCEPT ![callers[c].id] = NoSlot]
               /\ callers' = [callers EXCEPT ![c].pc = "done"]
          ELSE /\ callers' = [callers EXCEPT ![c].pc = "play_activate",
                                             ![c].slot = slot,
                                             ![c].events = events]
               /\ UNCHANGED results
    /\ UNCHANGED <<NotPlayback, slots, shutdown, concurrent_mode, workers, midi_lock, sink,
                   dispatched, play_events, interrupted, ncalls>>

\* lines 245-249: activate the slot under the lock
PlayActivate(c) ==
    /\ callers[c].pc = "play_activate"
    /\ slots' = [slots EXCEPT ![callers[c].slot] =
                    [@ EXCEPT !.active = TRUE, !.events = callers[c].events,
                              !.event_index = 0, !.stop_requested = FALSE,
                              !.play = callers[c].id]]
    /\ callers' = [callers EXCEPT ![c].pc = "play_thread"]
    /\ UNCHANGED <<NotPlayback, shutdown, concurrent_mode, workers, midi_lock, sink,
                   dispatched, play_events, results, interrupted, ncalls>>

\* lines 251-253: slot.thread = threading.Thread(target=_play_slot, args=(slot,))
PlayCreateThread(c) ==
    /\ callers[c].pc = "play_thread"
    /\ workers' = [workers EXCEPT ![callers[c].id] =
                    [UnbornWorker EXCEPT !.pc = "created", !.slot = callers[c].slot]]
    /\ slots' = [slots EXCEPT ![callers[c].slot].thread = callers[c].id]
    /\ callers' = [callers EXCEPT ![c].pc = "play_start"]
    /\ UNCHANGED <<NotPlayback, shutdown, concurrent_mode, midi_lock, sink,
                   dispatched, play_events, results, interrupted, ncalls>>

\* lines 254-256: slot.thread.start() reads slot.thread again; starting a
\* Thread a second time raises RuntimeError
PlayStartThread(c) ==
    /\ callers[c].pc = "play_start"
    /\ LET t == slots[callers[c].slot].thread
       IN IF workers[t].pc = "created"
          THEN /\ workers' = [workers EXCEPT ![t].pc = "w_begin"]
               /\ results' = [results EXCEPT ![callers[c].id] = callers[c].slot]
          ELSE /\ results' = [results EXCEPT ![callers[c].id] = RuntimeError]
               /\ UNCHANGED workers
    /\ callers' = [callers EXCEPT ![c].pc = "done"]
    /\ UNCHANGED <<NotPlayback, slots, shutdown, concurrent_mode, midi_lock, sink,
                   dispatched, play_events, interrupted, ncalls>>

----------------------------------------------------------------------------
(* _play_slot(), run by a worker thread *)

StopSeen(s) == slots[s].stop_requested \/ shutdown

\* lines 174-176: enumerate(slot.events) takes the list the slot holds now
WorkerBegin(t) ==
    /\ workers[t].pc = "w_begin"
    /\ workers' = [workers EXCEPT ![t].pc = "w_top",
                                  ![t].evs = slots[workers[t].slot].events,
                                  ![t].evplay = slots[workers[t].slot].play,
                                  ![t].i = 1]
    /\ UNCHANGED <<NotPlayback, slots, shutdown, concurrent_mode, callers, midi_lock, sink,
                   dispatched, play_events, results, interrupted, ncalls>>

\* lines 176-180: next event, stop test, slot.event_index = i
WorkerTop(t) ==
    /\ workers[t].pc = "w_top"
    /\ IF workers[t].i > Len(workers[t].evs) \/ StopSeen(workers[t].slot)
       THEN /\ workers' = [workers EXCEPT ![t].pc = "w_finally"]
            /\ UNCHANGED slots
       ELSE /\ workers' = [workers EXCEPT ![t].pc = "w_wait"]
            /\ slots' = [slots EXCEPT ![workers[t].slot].event_index =
                                            workers[t].i - 1]
    /\ UNCHANGED <<NotPlayback, shutdown, concurrent_mode, callers, midi_lock, sink,
                   dispatched, play_events, results, interrupted, ncalls>>

\* lines 183-196: sleep until the event's target time, then the stop test
WorkerWait(t) ==
    /\ workers[t].pc = "w_wait"
    /\ workers' = [workers EXCEPT ![t].pc =
                        IF StopSeen(workers[t].slot) THEN "w_finally" ELSE "w_send"]
    /\ UNCHANGED <<NotPlayback, slots, shutdown, concurrent_mode, callers, midi_lock, sink,
                   dispatched, play_events, results, interrupted, ncalls>>

\* lines 199-206: the send callback takes the sink lock and sends the event
WorkerSendEnter(t) ==
    /\ workers[t].pc = "w_send"
    /\ EnterSend(WorkerThread(t))
    /\ dispatched' = [dispatched EXCEPT ![workers[t].evplay] =
                            Append(@, workers[t].evs[workers[t].i])]
    /\ workers' = [workers EXCEPT ![t].pc = "w_sending"]
    /\ UNCHANGED <<NotPlayback, slots, shutdown, concurrent_mode, callers,
                   play_events, results, interrupted, ncalls>>

WorkerSendExit(t) ==
    /\ workers[t].pc = "w_sending"
    /\ LeaveSend(WorkerThread(t))
    /\ workers' = [workers EXCEPT ![t].pc = "w_top", ![t].i = @ + 1]
    /\ UNCHANGED <<NotPlayback, slots, shutdown, concurrent_mode, callers,
                   dispatched, play_events, results, interrupted, ncalls>>

\* lines 208-213: the finally block, under the lock
WorkerFinally(t) ==
    /\ workers[t].pc = "w_finally"
    /\ slots' = [slots EXCEPT ![workers[t].slot] =
                    [@ EXCEPT !.active = FALSE, !.events = <<>>,
                              !.event_index = 0, !.stop_requested = FALSE,
                              !.play = 0]]
    /\ workers' = [workers EXCEPT ![t] = [UnbornWorker EXCEPT !.pc = "finished",
                                            !.slot = workers[t].slot]]
    /\ UNCHANGED <<NotPlayback, shutdown, concurrent_mode, callers, midi_lock, sink,
                   dispatched, play_events, results, interrupted, ncalls>>

----------------------------------------------------------------------------
(* stop(), stop_slot(), shutdown(), wait() *)

CallStop(c) ==
    /\ CanCall(c)
    /\ ncalls' = ncalls + 1
    /\ interrupted' = TRUE
    /\ callers' = [callers EXCEPT ![c] =
            [IdleCaller EXCEPT !.pc = "stop_signal", !.op = "stop", !.id = ncalls + 1]]
    /\ UNCHANGED <<NotPlayback, slots, shutdown, concurrent_mode, workers, midi_lock, sink,
                   dispatched, play_events, results>>

\* lines 299-302: shutdown() sets _shutdown and calls stop()
CallShutdown(c) ==
    /\ CanCall(c)
    /\ ncalls' = ncalls + 1
    /\ interrupted' = TRUE
    /\ shutdown' = TRUE
    /\ callers' = [callers EXCEPT ![c] =
            [IdleCaller EXCEPT !.pc = "stop_signal", !.op = "shutdown",
                               !.id = ncalls + 1]]
    /\ UNCHANGED <<NotPlayback, slots, concurrent_mode, workers, midi_lock, sink,
                   dispatched, play_events, results>>

\* lines 261-264: flag every active slot, under the lock
StopSignal(c) ==
    /\ callers[c].pc = "stop_signal"
    /\ slots' = [s \in SlotIds |->
                    IF slots[s].active
                    THEN [slots[s] EXCEPT !.stop_requested = TRUE]
                    ELSE slots[s]]
    /\ callers' = [callers EXCEPT
            ![c].pc = "stop_join", ![c].j = 0,
            ![c].signalled = {slots[s].play : s \in {r \in SlotIds : slots[r].active}}]
    /\ UNCHANGED <<NotPlayback, shutdown, concurrent_mode, workers, midi_lock, sink,
                   dispatched, play_events, results, interrupted, ncalls>>

\* lines 281-285: stop_slot(slot_id) flags one slot, under the lock
CallStopSlot(c, slot_id) ==
    /\ CanCall(c)
    /\ ncalls' = ncalls + 1
    /\ interrupted' = TRUE
    /\ IF 0 <= slot_id /\ slot_id < MAX_PLAYBACK_SLOTS
       THEN callers' = [callers EXCEPT ![c] =
                [IdleCaller EXCEPT !.pc = "stop_slot_signal", !.op = "stop_slot",
                                   !.id = ncalls + 1, !.j = slot_id]]
       ELSE callers' = [callers EXCEPT ![c] =
                [IdleCaller EXCEPT !.pc = "done", !.op = "stop_slot",
                                   !.id = ncalls + 1]]
    /\ UNCHANGED <<NotPlayback, slots, shutdown, concurrent_mode, workers, midi_lock, sink,
                   dispatched, play_events, results>>

StopSlotSignal(c) ==
    /\ callers[c].pc = "stop_slot_signal"
    /\ LET s == callers[c].j
       IN /\ slots' = [slots EXCEPT ![s].stop_requested = @ \/ slots[s].active]
          /\ callers' = [callers EXCEPT
                ![c].pc = "stop_join",
                ![c].signalled = IF slots[s].active THEN {slots[s].play} ELSE {}]
    /\ UNCHANGED <<NotPlayback, shutdown, concurrent_mode, workers, midi_lock, sink,
                   dispatched, play_events, results, interrupted, ncalls>>

\* where the join loop goes after slot j: stop() takes the next slot,
\* stop_slot() returns
AfterJoin(c) ==
    IF callers[c].op = "stop_slot" THEN [callers[c] EXCEPT !.pc = "done"]
    ELSE [callers[c] EXCEPT !.pc = "stop_join", !.j = @ + 1]

\* lines 267-268 / 287: `if slot.thread and slot.thread.is_alive()`
StopJoinCheck(c) ==
    /\ callers[c].pc = "stop_join"
    /\ IF callers[c].j >= MAX_PLAYBACK_SLOTS
       THEN callers' = [callers EXCEPT ![c].pc = "notes_off", ![c].ch = 0]
       ELSE LET t == slots[callers[c].j].thread
            IN IF t # NoThread /\ is_alive(t)
               THEN callers' = [callers EXCEPT ![c].pc = "stop_joining"]
               ELSE callers' = [callers EXCEPT ![c] = AfterJoin(c)]
    /\ UNCHANGED <<NotPlayback, slots, shutdown, concurrent_mode, workers, midi_lock, sink,
                   dispatched, play_events, results, interrupted, ncalls>>

\* lines 269 / 288: slot.thread.join(timeout) reads slot.thread again; join
\* of a Thread that was not started raises RuntimeError
StopJoin(c) ==
    /\ callers[c].pc = "stop_joining"
    /\ LET t == slots[callers[c].j].thread
       IN \/ /\ workers[t].pc = "finished"
             /\ callers' = [callers EXCEPT ![c] = AfterJoin(c)]
          \/ /\ workers[t].pc = "created"
             /\ callers' = [callers EXCEPT ![c].pc = "done",
                                           ![c].timed_out = TRUE]
    /\ UNCHANGED <<NotPlayback, slots, shutdown, concurrent_mode, workers, midi_lock, sink,
                   dispatched, play_events, results, interrupted, ncalls>>

\* the join gives up after THREAD_JOIN_TIMEOUT while the thread is alive
StopJoinTimeout(c) ==
    /\ callers[c].pc = "stop_joining"
    /\ is_alive(slots[callers[c].j].thread)
    /\ callers' = [callers EXCEPT ![c] = [AfterJoin(c) EXCEPT !.timed_out = TRUE]]
    /\ UNCHANGED <<NotPlayback, slots, shutdown, concurrent_mode, workers, midi_lock, sink,
                   dispatched, play_events, results, interrupted, ncalls>>

\* lines 272-273 and _send_all_notes_off: one control change per channel
NotesOffEnter(c) ==
    /\ callers[c].pc = "notes_off"
    /\ IF callers[c].ch >= MIDI_MAX_CHANNELS
       THEN /\ callers' = [callers EXCEPT ![c].pc = "done"]
            /\ UNCHANGED <<midi_lock, sink>>
       ELSE /\ EnterSend(CallerThread(c))
            /\ callers' = [callers EXCEPT ![c].pc = "notes_off_sending"]
    /\ UNCHANGED <<NotPlayback, slots, shutdown, concurrent_mode, workers,
                   dispatched, play_events, results, interrupted, ncalls>>

NotesOffExit(c) ==
    /\ callers[c].pc = "notes_off_sending"
    /\ LeaveSend(CallerThread(c))
    /\ callers' = [callers EXCEPT ![c].pc = "notes_off", ![c].ch = @ + 1]
    /\ UNCHANGED <<NotPlayback, slots, shutdown, concurrent_mode, workers,
                   dispatched, play_events, results, interrupted, ncalls>>

\* lines 296-297: wait() polls is_playing() until it is false
CallWait(c) ==
    /\ CanCall(c)
    /\ ncalls' = ncalls + 1
    /\ callers' = [callers EXCEPT ![c] =
            [IdleCaller EXCEPT !.pc = "wait_poll", !.op = "wait", !.id = ncalls + 1]]
    /\ UNCHANGED <<NotPlayback, slots, shutdown, concurrent_mode, workers, midi_lock, sink,
                   dispatched, play_events, results, interrupted>>

WaitPoll(c) ==
    /\ callers[c].pc = "wait_poll"
    /\ ~is_playing
    /\ callers' = [callers EXCEPT ![c].pc = "done"]
    /\ UNCHANGED <<NotPlayback, slots, shutdown, concurrent_mode, workers, midi_lock, sink,
                   dispatched, play_events, results, interrupted, ncalls>>

\* the call has returned; the caller thread is free for its next call
Return(c) ==
    /\ callers[c].pc = "done"
    /\ callers' = [callers EXCEPT ![c] = IdleCaller]
    /\ UNCHANGED <<NotPlayback, slots, shutdown, concurrent_mode, workers, midi_lock, sink,
                   dispatched, play_events, results, interrupted, ncalls>>

----------------------------------------------------------------------------

Next ==
    \/ \E c \in CallerIds, seq \in PlaySequences : CallPlay(c, seq)
    \/ \E c \in CallerIds : PlayModeWait(c)
    \/ \E c \in CallerIds : PlayFindSlot(c)
    \/ \E c \in CallerIds : PlayActivate(c)
    \/ \E c \in CallerIds : PlayCreateThread(c)
    \/ \E c \in CallerIds : PlayStartThread(c)
    \/ \E t \in CallIds : WorkerBegin(t)
    \/ \E t \in CallIds : WorkerTop(t)
    \/ \E t \in CallIds : WorkerWait(t)
    \/ \E t \in CallIds : WorkerSendEnter(t)
    \/ \E t \in CallIds : WorkerSendExit(t)
    \/ \E t \in CallIds : WorkerFinally(t)
    \/ \E c \in CallerIds : CallStop(c)
    \/ \E c \in CallerIds : CallShutdown(c)
    \/ \E c \in CallerIds : StopSignal(c)
    \/ \E c \in CallerIds, id \in 0 .. MAX_PLAYBACK_SLOTS : CallStopSlot(c, id)
    \/ \E c \in CallerIds : StopSlotSignal(c)
    \/ \E c \in CallerIds : StopJoinCheck(c)
    \/ \E c \in CallerIds : StopJoin(c)
    \/ \E c \in CallerIds : StopJoinTimeout(c)
    \/ \E c \in CallerIds : NotesOffEnter(c)
    \/ \E c \in CallerIds : NotesOffExit(c)
    \/ \E c \in CallerIds : CallWait(c)
    \/ \E c \in CallerIds : WaitPoll(c)
    \/ \E c \in CallerIds : Return(c)

Spec == Init /\ [][Next]_vars

----------------------------------------------------------------------------
(* _build_events as a function of its argument: the argument is drawn in   *)
(* Init, BuildEvents applies the function.                                 *)

MaxNotes == 2
MaxTime == 2

BuildNotes ==
    {MidiNote(p, 100, s, d, c) :
        p \in {60}, s \in 0 .. MaxTime, d \in 0 .. MaxTime, c \in {0, 1}}

BuildNoteLists ==
    UNION {[1 .. n -> BuildNotes] : n \in 0 .. MaxNotes}

BuildProgramChanges ==
    {<<>>} \cup {<<[program |-> 40, time |-> t, channel |-> 0]>> : t \in {0, MaxTime}}

BuildControlChanges ==
    {<<>>} \cup {<<[control |-> 10, value |-> 64, time |-> t, channel |-> 0]>> :
                    t \in {1}}

BuildInit ==
    /\ b_seq \in {MidiSequence(ns, pcs, ccs) :
                    ns \in BuildNoteLists, pcs \in BuildProgramChanges,
                    ccs \in BuildControlChanges}
    /\ b_events = <<>>
    /\ b_pc = "start"

PlaybackIdle ==
    /\ PlaybackInit
    /\ concurrent_mode = TRUE

BuildEvents ==
    /\ b_pc = "start"
    /\ b_events' = _build_events(b_seq)
    /\ b_pc' = "done"
    /\ UNCHANGED <<NotBuild, b_seq>>

InitBuild == BuildInit /\ PlaybackIdle /\ GeneratorIdle /\ ParserIdle /\ ScannerIdle

SpecBuild == InitBuild /\ [][BuildEvents]_vars

----------------------------------------------------------------------------
(* generate, write_midi_file and read_midi_file on bounded scores: the      *)
(* score is drawn in the initial state.                                     *)

MaxEvents == 3

\* (name) and (name number)
Form0(name) == LispListNode(<<LispSymbolNode(name)>>)

Form1(name, number) == LispListNode(<<LispSymbolNode(name), LispNumberNode(Whole(number))>>)

ScoreEvents ==
    {NoteNode("c", <<>>, NoDuration, FALSE),
     NoteNode("c", <<>>, DurationNode(<<NoteLengthNode(Whole(4), 0)>>), FALSE),
     NoteNode("c", <<>>, DurationNode(<<NoteLengthNode(Whole(0), 0)>>), FALSE),
     NoteNode("d", <<"+">>, DurationNode(<<NoteLengthNode(Whole(8), 1)>>), TRUE),
     RestNode(DurationNode(<<NoteLengthNode(Whole(2), 0)>>)),
     OctaveSetNode(5),
     OctaveUpNode,
     OctaveDownNode,
     BarlineNode,
     Form1("tempo", 60),
     Form1("tempo", 0),
     Form1("quant", 50),
     Form1("vol", 50),
     Form1("transpose", 2),
     Form1("foo", 1),
     Form0("tempo"),
     LispListNode(<<LispSymbolNode("key-sig"), LispQuotedNode(LispSymbolNode("up"))>>),
     LispListNode(<<LispSymbolNode("key-sig"), LispStringNode(<<<<"c", "+">>>>)>>)}

ScoreEventLists(max) == UNION {[1 .. n -> ScoreEvents] : n \in 0 .. max}

\* RootNode.children as parse() builds them: nothing, the events of the
\* implicit part, or one part declaration with its events
Scores(max) ==
    {<<>>}
        \cup {<<EventSequenceNode(events)>> : events \in ScoreEventLists(max) \ {<<>>}}
        \cup {<<PartNode(<<"piano">>, NoAlias, events)>> : events \in ScoreEventLists(max)}
        \cup {<<PartNode(<<"violin", "piano">>, NoAlias, events)>> :
                events \in ScoreEventLists(max)}

GeneratorInit ==
    /\ g_ast \in Scores(MaxEvents)
    /\ g_agenda = <<>>
    /\ g_state = GeneratorState
    /\ g_sequence = MidiSequence(<<>>, <<>>, <<>>)
    /\ g_frames = <<>>
    /\ g_pc = "start"
    /\ f_data = <<>>
    /\ f_seq = MidiSequence(<<>>, <<>>, <<>>)
    /\ f_pc = "none"

NextGenerate ==
    \/ Generate
    \/ ProcessPart
    \/ ProcessEventSequence
    \/ ProcessNote
    \/ ProcessRest
    \/ ProcessOctaveSet
    \/ ProcessOctaveUp
    \/ ProcessOctaveDown
    \/ ProcessBarline
    \/ ProcessLispList
    \/ GenerateReturn
    \/ WriteMidiFile
    \/ ReadMidiFile

InitGenerate == GeneratorInit /\ PlaybackIdle /\ BuildIdle /\ ParserIdle /\ ScannerIdle

SpecGenerate == InitGenerate /\ [][NextGenerate]_vars

----------------------------------------------------------------------------
(* generate on scores with several parts, variables and voice groups: the  *)
(* score is drawn in the initial state.                                     *)

MaxParts == 17
MaxPieceEvents == 3

\* names the scanner reads as instrument names
InstrumentNames ==
    <<"p1", "p2", "p3", "p4", "p5", "p6", "p7", "p8", "p9", "p10", "p11", "p12",
      "p13", "p14", "p15", "p16", "p17", "p18">>

PlainNote(letter) == NoteNode(letter, <<>>, NoDuration, FALSE)

\* `p1: c  p2: c  ...`, one part for each of the first n names
ManyParts(n) == [k \in 1 .. n |-> PartNode(<<InstrumentNames[k]>>, NoAlias, <<PlainNote("c")>>)]

\* `theme = c d e`
ThemeDefinition ==
    VariableDefinitionNode("theme", <<PlainNote("c"), PlainNote("d"), PlainNote("e")>>)

PieceEvents ==
    {PlainNote("c"),
     NoteNode("d", <<>>, NoDuration, TRUE),
     RestNode(NoDuration),
     OctaveSetNode(5),
     OctaveUpNode,
     OctaveDownNode,
     BarlineNode,
     Form1("tempo", -60),
     Form1("transpose!", 2),
     Form1("quant", 50),
     Form1("vol", 99),
     ThemeDefinition,
     VariableReferenceNode("theme"),
     VariableReferenceNode("motif"),
     VoiceGroupNode(<<VoiceNode(1, <<PlainNote("c"), PlainNote("d")>>),
                      VoiceNode(2, <<PlainNote("e")>>)>>)}

PieceEventLists(max) == UNION {[1 .. n -> PieceEvents] : n \in 0 .. max}

\* RootNode.children as parse() builds them: parts only; the events of the
\* implicit part; a part and a second part after it; the events of the
\* implicit part and a part after them
Pieces(parts, max) ==
    {ManyParts(n) : n \in 1 .. parts}
        \cup {<<EventSequenceNode(events)>> : events \in PieceEventLists(max) \ {<<>>}}
        \cup {<<PartNode(<<"piano">>, NoAlias, events),
                PartNode(<<"violin">>, NoAlias, <<PlainNote("c")>>)>> :
                events \in PieceEventLists(max)}
        \cup {<<EventSequenceNode(events),
                PartNode(<<"violin">>, NoAlias, <<PlainNote("c")>>)>> :
                events \in PieceEventLists(max) \ {<<>>}}

PieceInit ==
    /\ g_ast \in Pieces(MaxParts, MaxPieceEvents)
    /\ g_agenda = <<>>
    /\ g_state = GeneratorState
    /\ g_sequence = MidiSequence(<<>>, <<>>, <<>>)
    /\ g_frames = <<>>
    /\ g_pc = "start"
    /\ f_data = <<>>
    /\ f_seq = MidiSequence(<<>>, <<>>, <<>>)
    /\ f_pc = "none"

NextPiece ==
    \/ Generate
    \/ ProcessPart
    \/ ProcessEventSequence
    \/ ProcessNote
    \/ ProcessRest
    \/ ProcessOctaveSet
    \/ ProcessOctaveUp
    \/ ProcessOctaveDown
    \/ ProcessBarline
    \/ ProcessLispList
    \/ ProcessVariableDefinition
    \/ ProcessVariableReference
    \/ ReferenceEnd
    \/ ProcessVoiceGroup
    \/ ProcessVoice
    \/ VoiceEnd
    \/ VoiceGroupEnd
    \/ GenerateReturn

InitPiece == PieceInit /\ PlaybackIdle /\ BuildIdle /\ ParserIdle /\ ScannerIdle

SpecPiece == InitPiece /\ [][NextPiece]_vars

----------------------------------------------------------------------------
(* generate on scores with chords, crams, repeats, voice groups of several  *)
(* parts and variables that refer to variables: the score is drawn in the   *)
(* initial state.                                                            *)

MaxItems == 2

NoteOf(letter, denominator) ==
    NoteNode(letter, <<>>, DurationNode(<<NoteLengthNode(Whole(denominator), 0)>>), FALSE)

HalfNote == DurationNode(<<NoteLengthNode(Whole(2), 0)>>)

\* `[c]*2`
RepeatedNote == RepeatNode(BracketedSequenceNode(<<PlainNote("c")>>), 2)

\* `d'2`
OnSecond(letter) == OnRepetitionsNode(PlainNote(letter), <<RepetitionRange(2, <<>>)>>)

StructureItems ==
    {PlainNote("c"),
     NoteOf("d", 8),
     RestNode(NoDuration),
     OctaveSetNode(5),
     OctaveUpNode,
     OctaveDownNode,
     BarlineNode,
     \* `c/e`, `c2/e4`, `c/r1`, `c/>e/<g/o3a`, `c/(tempo 60)e`
     ChordNode(<<PlainNote("c"), PlainNote("e")>>),
     ChordNode(<<NoteOf("c", 2), NoteOf("e", 4)>>),
     ChordNode(<<PlainNote("c"), RestNode(DurationNode(<<NoteLengthNode(Whole(1), 0)>>))>>),
     ChordNode(<<PlainNote("c"), OctaveUpNode, PlainNote("e"), OctaveDownNode,
                 PlainNote("g"), OctaveSetNode(3), PlainNote("a")>>),
     ChordNode(<<PlainNote("c"), Form1("tempo", 60), PlainNote("e")>>),
     \* `{c d}2`, `{c d}`, `{o5}2`, `{theme}2`, `{c8 d}2`, `{c [d e]*2}2`,
     \* `{c (tempo 60) d}2`, `{{c d} e}2`
     CramNode(<<PlainNote("c"), PlainNote("d")>>, HalfNote),
     CramNode(<<PlainNote("c"), PlainNote("d")>>, NoDuration),
     CramNode(<<OctaveSetNode(5)>>, HalfNote),
     CramNode(<<VariableReferenceNode("theme")>>, HalfNote),
     CramNode(<<NoteOf("c", 8), PlainNote("d")>>, HalfNote),
     CramNode(<<PlainNote("c"),
                RepeatNode(BracketedSequenceNode(<<PlainNote("d"), PlainNote("e")>>), 2)>>,
              HalfNote),
     CramNode(<<PlainNote("c"), Form1("tempo", 60), PlainNote("d")>>, HalfNote),
     CramNode(<<CramNode(<<PlainNote("c"), PlainNote("d")>>, NoDuration), PlainNote("e")>>,
              HalfNote),
     \* `[c]*2`, `c*0`, `[c d'2]*2`, `[[c]*2 d'2]*2`, `[[c]*2 d]*2`, `c'1-2`, `c'2`
     RepeatedNote,
     RepeatNode(PlainNote("c"), 0),
     RepeatNode(BracketedSequenceNode(<<PlainNote("c"), OnSecond("d")>>), 2),
     RepeatNode(BracketedSequenceNode(<<RepeatedNote, OnSecond("d")>>), 2),
     RepeatNode(BracketedSequenceNode(<<RepeatedNote, PlainNote("d")>>), 2),
     OnRepetitionsNode(PlainNote("c"), <<RepetitionRange(1, <<2>>)>>),
     OnSecond("c"),
     \* `V1: c d V2: e`, `V1: c8 V2: [d]*2`
     VoiceGroupNode(<<VoiceNode(1, <<PlainNote("c"), PlainNote("d")>>),
                      VoiceNode(2, <<PlainNote("e")>>)>>),
     VoiceGroupNode(<<VoiceNode(1, <<NoteOf("c", 8)>>),
                      VoiceNode(2, <<RepeatNode(BracketedSequenceNode(<<PlainNote("d")>>), 2)>>)>>),
     VariableReferenceNode("theme")}

StructureItemLists(max) == UNION {[1 .. n -> StructureItems] : n \in 0 .. max}

\* what comes first in the score: nothing; `(quant 50)`; `(quant 0)`;
\* `(tempo 60)`; `theme = c d`; `theme = theme`; `theme = c theme`;
\* `theme = motif` and `motif = theme`
Preludes ==
    {<<>>,
     <<Form1("quant", 50)>>,
     <<Form1("quant", 0)>>,
     <<Form1("tempo", 60)>>,
     <<VariableDefinitionNode("theme", <<PlainNote("c"), PlainNote("d")>>)>>,
     <<VariableDefinitionNode("theme", <<VariableReferenceNode("theme")>>)>>,
     <<VariableDefinitionNode("theme", <<PlainNote("c"), VariableReferenceNode("theme")>>)>>,
     <<VariableDefinitionNode("theme", <<VariableReferenceNode("motif")>>),
       VariableDefinitionNode("motif", <<VariableReferenceNode("theme")>>)>>}

\* RootNode.children as parse() builds them: the events of the implicit
\* part; `piano: c  violin:  piano/violin:` and the events; the same with
\* the two parts at different tempos, `piano: (tempo 60) c  violin: c`
Structures(max) ==
    ({<<EventSequenceNode(prelude \o items)>> :
            prelude \in Preludes, items \in StructureItemLists(max)}
        \ {<<EventSequenceNode(<<>>)>>})
        \cup {<<PartNode(<<"piano">>, NoAlias, <<PlainNote("c")>>),
                PartNode(<<"violin">>, NoAlias, <<>>),
                PartNode(<<"piano", "violin">>, NoAlias, prelude \o items)>> :
                    prelude \in Preludes, items \in StructureItemLists(max)}
        \cup {<<PartNode(<<"piano">>, NoAlias, <<Form1("tempo", 60), PlainNote("c")>>),
                PartNode(<<"violin">>, NoAlias, <<PlainNote("c")>>),
                PartNode(<<"piano", "violin">>, NoAlias, items)>> :
                    items \in StructureItemLists(max)}

StructureInit ==
    /\ g_ast \in Structures(MaxItems)
    /\ g_agenda = <<>>
    /\ g_state = GeneratorState
    /\ g_sequence = MidiSequence(<<>>, <<>>, <<>>)
    /\ g_frames = <<>>
    /\ g_pc = "start"
    /\ f_data = <<>>
    /\ f_seq = MidiSequence(<<>>, <<>>, <<>>)
    /\ f_pc = "none"

NextStructure ==
    \/ Generate
    \/ ProcessPart
    \/ ProcessEventSequence
    \/ ProcessNote
    \/ ProcessRest
    \/ ProcessChord
    \/ ProcessOctaveSet
    \/ ProcessOctaveUp
    \/ ProcessOctaveDown
    \/ ProcessBarline
    \/ ProcessLispList
    \/ ProcessVariableDefinition
    \/ ProcessVariableReference
    \/ ReferenceEnd
    \/ ProcessVoiceGroup
    \/ ProcessVoice
    \/ VoiceEnd
    \/ VoiceGroupEnd
    \/ ProcessCram
    \/ CramEnd
    \/ ProcessRepeat
    \/ RepeatPass
    \/ RepeatEnd
    \/ ProcessOnRepetitions
    \/ ProcessBracketedSequence
    \/ GenerateReturn

InitStructure == StructureInit /\ PlaybackIdle /\ BuildIdle /\ ParserIdle /\ ScannerIdle

SpecStructure == InitStructure /\ [][NextStructure]_vars

----------------------------------------------------------------------------
(* parse() on bounded token lists: the list is drawn in the initial state. *)
(* Every list of these tokens is one the scanner returns for some source   *)
(* text (the lexemes `c`, `r`, `|`, `piano`, `:`, `=`, a line break, `[`,   *)
(* `]`, separated by blanks).                                               *)

MaxTokens == 4

ParserTokens ==
    {Token("NOTE_LETTER", "c"), Token("REST_LETTER", ""), Token("BARLINE", ""),
     Token("NAME", "piano"), Token("COLON", ""), Token("EQUALS", ""),
     Token("NEWLINE", ""), Token("EVENT_SEQ_OPEN", ""),
     Token("EVENT_SEQ_CLOSE", "")}

TokenLists(max) ==
    {list \o <<Token("EOF", "")>> :
        list \in UNION {[1 .. n -> ParserTokens] : n \in 0 .. max}}

ParserInit ==
    /\ p_tokens \in TokenLists(MaxTokens)
    /\ p_current = 1
    /\ p_children = <<>>
    /\ p_skipped = <<>>
    /\ p_error = AldaSyntaxError("", 0)
    /\ p_pc = "start"

NextParse == Parse \/ ParseTopLevel \/ ParseReturn

InitParse == ParserInit /\ PlaybackIdle /\ BuildIdle /\ GeneratorIdle /\ ScannerIdle

SpecParse == InitParse /\ [][NextParse]_vars

----------------------------------------------------------------------------
(* read_midi_file on damaged files: the file write_midi_file wrote for a   *)
(* sequence has been cut short, or one of its bytes has been overwritten,  *)
(* before it is read.                                                       *)

\* what generate() returns for the scores `c` and `c d`
WrittenSequences ==
    {[MidiSequence(notes, <<>>, <<>>) EXCEPT
        !.tempo_changes = <<MidiTempoChange(Whole(120), Whole(0))>>] :
        notes \in {<<MidiNote(60, 69, Whole(0), Frac(9, 20), 0)>>,
                   <<MidiNote(60, 69, Whole(0), Frac(9, 20), 0),
                     MidiNote(62, 69, Frac(1, 2), Frac(9, 20), 0)>>}}

ChunkMagics == {<<77, 84, 104, 100>>, <<77, 84, 114, 107>>}    \* MThd, MTrk

\* the byte at offset is the high byte of a chunk length; a length of 2^31
\* or more is outside the integers of the model
IsLengthHighByte(data, offset) ==
    offset >= 4 /\ Slice(data, offset - 4, offset) \in ChunkMagics

Truncations(data) == {Slice(data, 0, n) : n \in 0 .. Len(data) - 1}

Overwritten(data, offset) == [data EXCEPT ![offset + 1] = 128]

Overwrites(data) ==
    {Overwritten(data, offset) :
        offset \in {k \in 0 .. Len(data) - 1 :
                        ~IsLengthHighByte(data, k) /\ Byte(data, k) # 128}}

DamagedFiles(data) == Truncations(data) \cup Overwrites(data)

DamagedInit ==
    /\ g_ast = <<>>
    /\ g_agenda = <<>>
    /\ g_state = GeneratorState
    /\ g_sequence \in WrittenSequences
    /\ g_frames = <<>>
    /\ g_pc = "returned"
    /\ f_data \in DamagedFiles(write_midi_file(g_sequence))
    /\ f_seq = MidiSequence(<<>>, <<>>, <<>>)
    /\ f_pc = "written"

InitRead == DamagedInit /\ PlaybackIdle /\ BuildIdle /\ ParserIdle /\ ScannerIdle

SpecRead == InitRead /\ [][ReadMidiFile]_vars

----------------------------------------------------------------------------
(* Properties *)

PlayCalls == {p \in CallIds : results[p] # Pending \/ play_events[p] # <<>>}

\* play call p was given a slot id
GotSlot(p) == results[p] \in SlotIds

\* the worker thread is inside the event loop of _play_slot
Dispatching(t) == workers[t].pc \in {"w_begin", "w_top", "w_wait", "w_send", "w_sending"}

RECURSIVE IsPrefix(_, _)
IsPrefix(a, b) ==
    \/ a = <<>>
    \/ /\ b # <<>>
       /\ Head(a) = Head(b)
       /\ IsPrefix(Tail(a), Tail(b))

\* C1 (as claimed): with a pool of capacity MAX_PLAYBACK_SLOTS, at no time have
\* more than MAX_PLAYBACK_SLOTS play() calls obtained a slot for sequences that
\* have not finished: the call beyond capacity returns None.
C1_AtMostCapacityPlaying ==
    Cardinality({p \in CallIds : GotSlot(p) /\ workers[p].pc # "finished"})
        <= MAX_PLAYBACK_SLOTS

\* C2 (as claimed): two play() calls whose playbacks overlap in time were given
\* different slot ids, so at most one worker dispatches from a slot at a time.
C2_DistinctSlotsWhileOverlapping ==
    \A p, q \in CallIds :
        (p # q /\ GotSlot(p) /\ GotSlot(q) /\ is_alive(p) /\ is_alive(q))
            => results[p] # results[q]

\* C3 (as claimed): in sequential mode no two slots are active at the same time.
C3_SequentialOneActive ==
    ~concurrent_mode => active_count <= 1

\* C5 (as claimed): when stop() has returned and no join timed out, every slot
\* that was active when stop() signalled is inactive and its worker has ended.
C5_StopHaltsSignalledSlots ==
    \A c \in CallerIds :
        (callers[c].pc = "done" /\ callers[c].op = "stop" /\ ~callers[c].timed_out)
            => \A p \in callers[c].signalled :
                    /\ workers[p].pc = "finished"
                    /\ \A s \in SlotIds : ~(slots[s].active /\ slots[s].play = p)

\* C6 (as claimed): when no stop(), stop_slot() or shutdown() is ever called, the
\* events sent for a play() call that returned a slot id are always a prefix of
\* its flattened event list (each once, in list order), and the whole list once
\* every thread has ended.
C6_EveryEventOnceInOrder ==
    ~interrupted =>
        \A p \in CallIds :
            GotSlot(p) =>
                /\ IsPrefix(dispatched[p], play_events[p])
                /\ ((\A c \in CallerIds : callers[c].pc = "idle")
                    /\ (\A t \in CallIds : workers[t].pc \in {"unborn", "finished"}))
                        => dispatched[p] = play_events[p]

\* C7 (as claimed): when wait() returns, that is when its poll finds no slot
\* active, no worker is still dispatching events.
C7_WaitReturnsWhenNoWorkerDispatches ==
    \A c \in CallerIds :
        (callers[c].pc = "wait_poll" /\ ~is_playing)
            => \A t \in CallIds : ~Dispatching(t)

\* C8: at no moment are two send operations inside the output sink.
C8_SendsMutuallyExclusive ==
    Cardinality(sink) <= 1

\* C8 witness: a worker is inside send_message while stop() or another worker
\* is about to send.
C8_Witness ==
    \E t \in CallIds :
        /\ workers[t].pc = "w_sending"
        /\ \/ \E c \in CallerIds :
                callers[c].pc = "notes_off" /\ callers[c].ch < MIDI_MAX_CHANNELS
           \/ \E u \in CallIds : u # t /\ workers[u].pc = "w_send"

\* C4: for two different notes of the sequence on the same pitch and channel,
\* one ending at the time the other starts, every note-off of the first comes
\* before every note-on of the second in the list _build_events returns.
C4_NoteOffBeforeNoteOn ==
    b_pc = "done" =>
        \A i, j \in 1 .. Len(b_seq.notes) :
            LET a == b_seq.notes[i]
                b == b_seq.notes[j]
            IN (/\ i # j
                /\ a.pitch = b.pitch
                /\ a.channel = b.channel
                /\ a.start_time + a.duration = b.start_time)
               => \A p, q \in 1 .. Len(b_events) :
                    (b_events[p] = NoteOffEvent(a) /\ b_events[q] = NoteOnEvent(b))
                        => p < q

\* C4 witness: the second note is listed first in the sequence, and the first
\* note sounds for a positive time.
C4_Witness ==
    /\ b_pc = "done"
    /\ Len(b_seq.notes) = 2
    /\ LET a == b_seq.notes[2]
           b == b_seq.notes[1]
       IN /\ a.pitch = b.pitch
          /\ a.channel = b.channel
          /\ a.duration > 0
          /\ b.duration > 0
          /\ a.start_time + a.duration = b.start_time

\* the time one tick lasts, in seconds, at the slowest tempo of the sequence
TickResolution(sequence) ==
    LET Tick(tc) == IF tc.bpm[1] > 0
                    THEN RDiv(Whole(60), RMul(tc.bpm, Whole(sequence.ticks_per_beat)))
                    ELSE Whole(0)
        RECURSIVE Longest(_)
        Longest(tcs) == IF tcs = <<>> THEN Whole(0)
                        ELSE RMax(Tick(Head(tcs)), Longest(Tail(tcs)))
    IN Longest(sequence.tempo_changes)

\* |x - y| <= eps
Within(x, y, eps) == ~RLess(eps, RSub(x, y)) /\ ~RLess(eps, RSub(y, x))

SameNote(a, b, eps) ==
    /\ a.pitch = b.pitch
    /\ a.velocity = b.velocity
    /\ a.channel = b.channel
    /\ Within(a.start_time, b.start_time, eps)
    /\ Within(a.duration, b.duration, eps)

\* the notes read back are the original notes, in the same order or in
\* another one
NotesRecovered(original, back, eps) ==
    /\ Len(original) = Len(back)
    /\ \/ \A k \in DOMAIN original : SameNote(original[k], back[k], eps)
       \/ \E f \in [DOMAIN original -> DOMAIN original] :
            /\ \A i, j \in DOMAIN original : f[i] = f[j] => i = j
            /\ \A k \in DOMAIN original : SameNote(original[k], back[f[k]], eps)

\* C9 (as claimed): whenever the file written from a generated sequence has
\* been read back, the notes read are the generated notes: as many, pitch,
\* velocity and channel the same note for note, start time and duration
\* within the time of one tick.
C9_RoundTripRecoversNotes ==
    f_pc = "read" =>
        NotesRecovered(g_sequence.notes, f_seq.notes, TickResolution(g_sequence))

\* C10 (as claimed): no step of generate() raises, and a Lisp form that is
\* malformed or not recognized leaves the generator state and the sequence
\* as they were.
C10_GenerateNeverRaises ==
    [][/\ g_pc' # "raised"
       /\ (AtNode("LispList") /\ ~RecognizedForm(Head(g_agenda)))
            => (g_state' = g_state /\ g_sequence' = g_sequence)]_vars

\* C11: the parser does no error recovery: a token that is unexpected at its
\* position makes parse() raise a syntax error; parse() never skips a token
\* and goes on, so at no point of a parse has a token been skipped.
C11_NoTokenSkipped ==
    p_pc \in {"loop", "returned"} => p_skipped = <<>>

\* the file is a proper prefix of the file that was written
IsTruncated(data, written) ==
    Len(data) < Len(written) /\ data = Slice(written, 0, Len(data))

\* one byte of a chunk magic has been overwritten
HasBadMagic(data, written) ==
    /\ Len(data) = Len(written)
    /\ \E offset \in 0 .. Len(data) - 1 :
          /\ Byte(data, offset) # Byte(written, offset)
          /\ \E k \in 1 .. 4 : offset + k <= Len(written)
                /\ offset + k >= 4
                /\ Slice(written, offset + k - 4, offset + k) \in ChunkMagics

\* the high bit of the time division has been set
HasSmpteDivision(data, written) ==
    Len(data) = Len(written) /\ Byte(data, 12) >= 128 /\ Byte(written, 12) < 128

\* the length that ends the last track has lost its final byte
HasUnterminatedQuantity(data, written) ==
    /\ Len(data) = Len(written)
    /\ Byte(data, Len(data) - 1) >= 128
    /\ Byte(written, Len(data) - 1) < 128

\* C12: read_midi_file raises MidiParseError, and returns no sequence, for
\* every structurally invalid file: one with a bad chunk magic, a truncated
\* track, an SMPTE time division or an unterminated variable-length quantity.
C12_InvalidFileRaisesMidiParseError ==
    (/\ f_pc # "written"
     /\ g_pc = "returned"
     /\ \/ IsTruncated(f_data, write_midi_file(g_sequence))
        \/ HasBadMagic(f_data, write_midi_file(g_sequence))
        \/ HasSmpteDivision(f_data, write_midi_file(g_sequence))
        \/ HasUnterminatedQuantity(f_data, write_midi_file(g_sequence)))
    => f_pc = "MidiParseError" /\ f_seq = MidiSequence(<<>>, <<>>, <<>>)

\* C13: channel assignment is exclusive, for any number of parts: every part
\* has a channel in 0 .. 15 and no two parts have the same channel.
C13_ChannelsExclusive ==
    \A p \in DOMAIN g_state.parts :
        /\ g_state.parts[p].channel \in 0 .. 15
        /\ \A q \in DOMAIN g_state.parts :
              p # q => g_state.parts[p].channel # g_state.parts[q].channel

\* C14: no step of the generator lowers the current_time of a part (the
\* modelled scores hold no @marker jump, the one step that may lower it).
C14_CurrentTimeNeverDecreases ==
    [][\A p \in DOMAIN g_state.parts \cap DOMAIN g_state'.parts :
            ~RLess(g_state'.parts[p].current_time, g_state.parts[p].current_time)]_vars

NonNegative(x) == ~RLess(x, Whole(0))

\* C15: every time in the sequence generate() returns is non-negative: the
\* start time and the duration of every note, the time of every program,
\* control and tempo change, and with them MidiSequence.duration(), the latest end of a
\* note (0 when there is no note).
C15_TimesNonNegative ==
    g_pc = "returned" =>
        /\ \A k \in DOMAIN g_sequence.notes :
              /\ NonNegative(g_sequence.notes[k].start_time)
              /\ NonNegative(g_sequence.notes[k].duration)
              /\ ~RLess(MidiSequence_duration(g_sequence),
                        RAdd(g_sequence.notes[k].start_time, g_sequence.notes[k].duration))
        /\ \A k \in DOMAIN g_sequence.program_changes :
              NonNegative(g_sequence.program_changes[k].time)
        /\ \A k \in DOMAIN g_sequence.control_changes :
              NonNegative(g_sequence.control_changes[k].time)
        /\ \A k \in DOMAIN g_sequence.tempo_changes :
              NonNegative(g_sequence.tempo_changes[k].time)
        /\ NonNegative(MidiSequence_duration(g_sequence))

IsThemeScore(n) ==
    g_ast = <<EventSequenceNode(<<ThemeDefinition>>
                                    \o [k \in 1 .. n |-> VariableReferenceNode("theme")])>>

\* C17: a score that defines a variable holding k notes and then references
\* it n times yields (n + 1) * k notes; `theme = c d e` followed by
\* `theme theme` yields 9 notes.
C17_NotesOfDefinitionAndReferences ==
    \A n \in 1 .. MaxPieceEvents - 1 :
        g_pc = "returned" /\ IsThemeScore(n) =>
            Len(g_sequence.notes) = (n + 1) * Len(ThemeDefinition.events)

\* `(transpose! 2)` stands among the events before the part `violin: c`
ViolinDeclaredAfterTranspose ==
    /\ Len(g_ast) = 2
    /\ g_ast[2] = PartNode(<<"violin">>, NoAlias, <<PlainNote("c")>>)
    /\ \E k \in DOMAIN g_ast[1].events : g_ast[1].events[k] = Form1("transpose!", 2)

\* C18: the global `transpose!` also sets the semitone offset of every part
\* declared after it: the note c of a part first declared after
\* `(transpose! 2)` sounds 2 semitones higher, as d (pitch 62).
C18_GlobalTransposeReachesLaterParts ==
    g_pc = "returned" /\ ViolinDeclaredAfterTranspose =>
        /\ g_state.parts[PartName("violin", -1)].transpose = 2
        /\ \A k \in DOMAIN g_sequence.notes :
              g_sequence.notes[k].channel = g_state.parts[PartName("violin", -1)].channel
                  => g_sequence.notes[k].pitch = 62

\* the form `(quant n)`, `(quantize n)` or `(quantization n)`
IsQuantForm(node) ==
    /\ node.elements # <<>>
    /\ Head(node.elements).type = "LispSymbol"
    /\ Head(node.elements).name \in QuantNames

\* C19: the step that processes a note advances the time cursor of every
\* active part by the note's full duration and emits, at the cursor's old
\* position, a note that sounds for full duration * quantization, or for the
\* full duration when the note is slurred; the step that changes the
\* quantization moves no time cursor, so no later note starts elsewhere.
C19_CursorAdvancesByFullDuration ==
    [][/\ AtNode("Note") =>
            LET before == _get_all_part_states(g_state)
                node == Head(g_agenda)
            IN /\ Len(g_sequence'.notes)
                    = Len(g_sequence.notes) + Len(before.current_parts)
               /\ \A k \in DOMAIN before.current_parts :
                    LET part == before.parts[before.current_parts[k]]
                        full == _beats_to_seconds(
                                    _calculate_duration(node.duration, part), part.tempo)
                        emitted == g_sequence'.notes[Len(g_sequence.notes) + k]
                    IN /\ g_state'.parts[before.current_parts[k]].current_time
                            = RAdd(part.current_time, full)
                       /\ emitted.start_time = part.current_time
                       /\ emitted.duration =
                            IF node.slurred THEN full
                            ELSE RMul(full, part.quantization)
       /\ AtNode("LispList") /\ IsQuantForm(Head(g_agenda)) =>
            \A p \in DOMAIN g_state'.parts :
                g_state'.parts[p].current_time =
                    IF p \in DOMAIN g_state.parts THEN g_state.parts[p].current_time
                    ELSE Whole(0)]_vars

\* `(quant 50) c c` has been generated: the first note sounds for half of
\* its half second, the second starts after the whole of it
C19_Witness ==
    /\ g_pc = "returned"
    /\ g_ast = <<EventSequenceNode(<<Form1("quant", 50), PlainNote("c"), PlainNote("c")>>)>>
    /\ Len(g_sequence.notes) = 2
    /\ g_sequence.notes[1].duration = Frac(1, 4)
    /\ g_sequence.notes[2].start_time = Frac(1, 2)

\* the integer nearest to n / d for n >= 0 and d > 0, a tie going to the
\* even neighbour
RoundHalfEven(n, d) ==
    IF 2 * (n % d) > d \/ (2 * (n % d) = d /\ (n \div d) % 2 = 1)
    THEN n \div d + 1
    ELSE n \div d

\* the form `(vol v)`, `(volume v)`, `(vol! v)` or `(volume! v)` with a
\* whole number v in 0..100
IsVolumeForm(node) ==
    /\ Len(node.elements) = 2
    /\ node.elements[1].type = "LispSymbol"
    /\ node.elements[1].name \in VolumeNames
    /\ node.elements[2].type = "LispNumber"
    /\ node.elements[2].value[2] = 1
    /\ node.elements[2].value[1] \in 0..100

\* C20: the step that processes a volume attribute with argument v in
\* 0..100 leaves every active part with the velocity round(v * 127 / 100).
C20_VolumeIsRounded ==
    [][AtNode("LispList") /\ IsVolumeForm(Head(g_agenda)) =>
            \A k \in DOMAIN g_state'.current_parts :
                g_state'.parts[g_state'.current_parts[k]].volume
                    = RoundHalfEven(Head(g_agenda).elements[2].value[1] * 127, 100)]_vars

\* caller c is inside stop_slot() and takes a step of it
StopSlotStep(c) ==
    /\ callers[c].op = "stop_slot"
    /\ callers[c].pc \in {"stop_slot_signal", "stop_join", "stop_joining"}
    /\ callers'[c] # callers[c]

\* C21: a step of stop_slot(id) changes no slot but slot id, halts no worker
\* and takes no event from any play; and when stop_slot(id) has returned
\* without a timed-out join, the play that held slot id when it was signalled
\* has ended and no longer holds the slot.
C21_StopSlotTargetsOneSlot ==
    /\ [][\A c \in CallerIds :
            StopSlotStep(c) =>
                /\ \A r \in SlotIds \ {callers[c].j} : slots'[r] = slots[r]
                /\ workers' = workers
                /\ dispatched' = dispatched]_vars
    /\ [](\A c \in CallerIds :
            (callers[c].pc = "done" /\ callers[c].op = "stop_slot" /\ ~callers[c].timed_out)
                => \A p \in callers[c].signalled :
                        /\ workers[p].pc = "finished"
                        /\ ~(slots[callers[c].j].active /\ slots[callers[c].j].play = p))

\* the items of the agenda that mark the end of a loop pass or of a call
ControlItems ==
    {"RepeatPass", "RepeatEnd", "VoiceEnd", "VoiceGroupEnd", "CramEnd", "ReferenceEnd"}

\* the 1-based pass of the innermost repeat whose loop has agenda still to
\* process, 0 when no repeat is being processed
RECURSIVE EnclosingPass(_)
EnclosingPass(agenda) ==
    IF agenda = <<>> THEN 0
    ELSE IF Head(agenda).type = "RepeatPass" THEN Head(agenda).number - 1
    ELSE IF Head(agenda).type = "RepeatEnd" THEN Head(agenda).times
    ELSE EnclosingPass(Tail(agenda))

\* C22: whenever an event is handed to _process_node, repetition_number is
\* the 1-based pass of the innermost repeat whose body is being processed,
\* also for an event that follows a nested repeat in that body, and it is 1
\* when no repeat is being processed; an on-repetitions node is therefore
\* played exactly on the passes inside its ranges.
C22_RepetitionNumberIsThePass ==
    (/\ g_pc = "running"
     /\ g_agenda # <<>>
     /\ Head(g_agenda).type \notin ControlItems)
        => g_state.repetition_number =
                IF EnclosingPass(Tail(g_agenda)) = 0 THEN 1
                ELSE EnclosingPass(Tail(g_agenda))

\* the latest of the time cursors part n had at the ends of the voices
RECURSIVE LatestVoiceEnd(_, _, _)
LatestVoiceEnd(voice_ends, n, latest) ==
    IF voice_ends = <<>> THEN latest
    ELSE LatestVoiceEnd(Tail(voice_ends), n, RMax(latest, Head(voice_ends)[n]))

\* C23: every voice of a voice group starts, for each active part, at the
\* time cursor that part had when the group began, and when the group
\* returns each active part's time cursor is the latest end time any of the
\* voices reached for that part.
C23_VoicesStartTogetherEndAtLatest ==
    [][/\ (AtNode("Voice") /\ g_agenda' # g_agenda) =>
            \A n \in DOMAIN Head(g_frames).start_times :
                g_state'.parts[n].current_time = Head(g_frames).start_times[n]
       /\ (AtNode("VoiceGroupEnd") /\ g_agenda' # g_agenda) =>
            \A n \in DOMAIN Head(g_frames).start_times :
                g_state'.parts[n].current_time =
                    LatestVoiceEnd(Head(g_frames).voice_ends, n,
                                   Head(g_frames).start_times[n])]_vars

\* lines 763-772: the total duration in seconds of the cram node, taken
\* with the first active part of state
CramTotalSecs(state, node) ==
    _beats_to_seconds(
        _calculate_duration(node.duration, state.parts[Head(state.current_parts)]),
        state.parts[Head(state.current_parts)].tempo)

\* _process_cram returns within the step: its inner sequence was not processed
CramReturnsAtOnce ==
    /\ AtNode("Cram")
    /\ g_pc' = "running"
    /\ g_agenda' = Tail(g_agenda)

\* C24: when _process_cram returns, whatever the inner sequence holds, every
\* active part has the default_duration it had before the cram and its time
\* cursor is the cursor it had before the cram plus the cram's total
\* duration in seconds.
C24_CramRestoresDurationAndEndsOnTime ==
    [][/\ CramReturnsAtOnce =>
            \A k \in DOMAIN _get_all_part_states(g_state).current_parts :
                /\ g_state'.parts[_get_all_part_states(g_state).current_parts[k]].default_duration
                    = _get_all_part_states(g_state).parts[
                            _get_all_part_states(g_state).current_parts[k]].default_duration
                /\ g_state'.parts[_get_all_part_states(g_state).current_parts[k]].current_time
                    = RAdd(_get_all_part_states(g_state).parts[
                                _get_all_part_states(g_state).current_parts[k]].current_time,
                           CramTotalSecs(_get_all_part_states(g_state), Head(g_agenda)))
       /\ (AtNode("CramEnd") /\ g_agenda' # g_agenda) =>
            \A n \in DOMAIN Head(g_frames).saved_states :
                /\ g_state'.parts[n].default_duration = Head(g_frames).saved_states[n][2]
                /\ g_state'.parts[n].current_time
                    = RAdd(Head(g_frames).saved_states[n][1], Head(g_frames).total_secs)]_vars

\* the notes the step appends to the sequence for the given channel
AppendedNotes(channel) ==
    {g_sequence'.notes[k] : k \in {i \in DOMAIN g_sequence'.notes :
        /\ i > Len(g_sequence.notes)
        /\ g_sequence'.notes[i].channel = channel}}

\* the longest of the durations of the notes, 0 for no note
LongestDuration(notes) ==
    IF notes = {} THEN Whole(0)
    ELSE (CHOOSE n \in notes : \A m \in notes : ~RLess(n.duration, m.duration)).duration

\* C25: when a chord has been processed, the notes it produced for a part
\* all start at the time cursor the part had before the chord, and the
\* part's time cursor has advanced by the longest sounding duration of these
\* notes.
C25_ChordAdvancesOnceByLongestNote ==
    [][(AtNode("Chord") /\ g_pc' = "running" /\ g_agenda' # g_agenda) =>
            \A k \in DOMAIN _get_all_part_states(g_state).current_parts :
                /\ \A n \in AppendedNotes(
                            _get_all_part_states(g_state).parts[
                                _get_all_part_states(g_state).current_parts[k]].channel) :
                        n.start_time = _get_all_part_states(g_state).parts[
                                _get_all_part_states(g_state).current_parts[k]].current_time
                /\ g_state'.parts[_get_all_part_states(g_state).current_parts[k]].current_time
                    = RAdd(_get_all_part_states(g_state).parts[
                                _get_all_part_states(g_state).current_parts[k]].current_time,
                           LongestDuration(AppendedNotes(
                                _get_all_part_states(g_state).parts[
                                    _get_all_part_states(g_state).current_parts[k]].channel)))]_vars

----------------------------------------------------------------------------
(* Scanner.scan on bounded source texts, one step per _scan_token call,    *)
(* and parse() on the tokens it returns, one step per event of the top     *)
(* level and per pass of the element loop of _parse_sexp.                  *)

\* the characters of the modelled source texts: the parentheses, the
\* apostrophe, the double quote, a letter that is no note letter, a digit,
\* the line break, the blank and the comment sign
SourceChars == {"(", ")", "'", "\"", "t", "1", "\n", " ", "#"}

MaxSource == 4

\* the passes of the element loops of _parse_sexp the model follows
MaxPasses == 4

WHITESPACE == {" "}

isdigit(c) == c = "1"

_is_identifier_start(c) == c = "t"

_is_identifier_char(c) == c \in {"t", "1"}

_is_symbol_char(c) == c \notin {"(", ")", "\"", "'", " ", "\n"}

\* the position after the longest run of the given characters from current
RECURSIVE AdvanceWhile(_, _, _)
AdvanceWhile(source, current, chars) ==
    IF current <= Len(source) /\ source[current] \in chars
    THEN AdvanceWhile(source, current + 1, chars)
    ELSE current

\* the outcome of one _scan_token call: the position after it, the tokens
\* it added, the depth it leaves, the lexer it used, no error
Scanned(current, tokens, sexp_depth, lexer) ==
    [current |-> current, tokens |-> tokens, sexp_depth |-> sexp_depth,
     lexer |-> lexer, message |-> ""]

\* _error: AldaScanError, raised by the given lexer
AldaScanError(message, start, sexp_depth, lexer) ==
    [current |-> start, tokens |-> <<>>, sexp_depth |-> sexp_depth,
     lexer |-> lexer, message |-> message]

\* source[_start : _current]
Lexeme(source, start, current) == SubSeq(source, start, current - 1)

\* _scan_repetitions: the apostrophe, then digits, `-` and `,`
_scan_repetitions(source, start, end, sexp_depth) ==
    IF end = start + 1
    THEN AldaScanError("Expected repetition range after apostrophe", start,
                       sexp_depth, "normal")
    ELSE Scanned(end, <<Token("REPETITIONS", Lexeme(source, start + 1, end))>>,
                 sexp_depth, "normal")

\* _scan_alias: end is the position of the next double quote or line break
_scan_alias(source, start, end, sexp_depth) ==
    IF end > Len(source) \/ source[end] = "\n"
    THEN AldaScanError("Unterminated alias string", start, sexp_depth, "normal")
    ELSE Scanned(end + 1, <<Token("ALIAS", Lexeme(source, start + 1, end))>>,
                 sexp_depth, "normal")

\* _scan_string: end is the position of the next double quote
_scan_string(source, start, end, sexp_depth) ==
    IF end > Len(source)
    THEN AldaScanError("Unterminated string", start, sexp_depth, "lisp")
    ELSE Scanned(end + 1, <<Token("STRING", Lexeme(source, start + 1, end))>>,
                 sexp_depth, "lisp")

\* the token of the given type that ends before position end
Lexed(source, start, end, type, sexp_depth, lexer) ==
    Scanned(end, <<Token(type, Lexeme(source, start, end))>>, sexp_depth, lexer)

\* _scan_normal_token, had it closed an S-expression at `)` like the lisp lexer
_scan_normal_token_Closing(source, start, sexp_depth) ==
    CASE source[start] = "(" ->
            Scanned(start + 1, <<Token("LEFT_PAREN", "")>>, sexp_depth + 1, "normal")
      [] source[start] = ")" ->
            Scanned(start + 1, <<Token("RIGHT_PAREN", "")>>, sexp_depth - 1, "normal")
      [] source[start] = "'" ->
            _scan_repetitions(source, start,
                              AdvanceWhile(source, start + 1, {"1"}), sexp_depth)
      [] source[start] = "\"" ->
            _scan_alias(source, start,
                        AdvanceWhile(source, start + 1, SourceChars \ {"\"", "\n"}),
                        sexp_depth)
      [] isdigit(source[start]) ->
            Lexed(source, start, AdvanceWhile(source, start + 1, {"1"}),
                  "NOTE_LENGTH", sexp_depth, "normal")
      [] _is_identifier_start(source[start]) ->
            Lexed(source, start,
                  AdvanceWhile(source, start + 1,
                               {c \in SourceChars : _is_identifier_char(c)}),
                  "NAME", sexp_depth, "normal")
      [] OTHER ->
            AldaScanError("Unexpected character", start, sexp_depth, "normal")

\* lines 79-148, for the characters of SourceChars
_scan_normal_token(source, start, sexp_depth) ==
    CASE source[start] = "(" ->
            Scanned(start + 1, <<Token("LEFT_PAREN", "")>>, sexp_depth + 1, "normal")
      [] source[start] = ")" ->
            AldaScanError("Unexpected ')' outside of S-expression", start,
                          sexp_depth, "normal")
      [] source[start] = "'" ->
            _scan_repetitions(source, start,
                              AdvanceWhile(source, start + 1, {"1"}), sexp_depth)
      [] source[start] = "\"" ->
            _scan_alias(source, start,
                        AdvanceWhile(source, start + 1, SourceChars \ {"\"", "\n"}),
                        sexp_depth)
      [] isdigit(source[start]) ->
            Lexed(source, start, AdvanceWhile(source, start + 1, {"1"}),
                  "NOTE_LENGTH", sexp_depth, "normal")
      [] _is_identifier_start(source[start]) ->
            Lexed(source, start,
                  AdvanceWhile(source, start + 1,
                               {c \in SourceChars : _is_identifier_char(c)}),
                  "NAME", sexp_depth, "normal")
      [] OTHER ->
            AldaScanError("Unexpected character", start, sexp_depth, "normal")

\* lines 150-171
_scan_lisp_token(source, start, sexp_depth) ==
    CASE source[start] = "(" ->
            Scanned(start + 1, <<Token("LEFT_PAREN", "")>>, sexp_depth + 1, "lisp")
      [] source[start] = ")" ->
            Scanned(start + 1, <<Token("RIGHT_PAREN", "")>>, sexp_depth - 1, "lisp")
      [] source[start] = "'" ->
            Scanned(start + 1, <<Token("QUOTE", "")>>, sexp_depth, "lisp")
      [] source[start] = "\"" ->
            _scan_string(source, start,
                         AdvanceWhile(source, start + 1, SourceChars \ {"\""}),
                         sexp_depth)
      [] isdigit(source[start]) ->
            Lexed(source, start, AdvanceWhile(source, start + 1, {"1"}),
                  "NUMBER", sexp_depth, "lisp")
      [] _is_symbol_char(source[start]) ->
            Lexed(source, start,
                  AdvanceWhile(source, start + 1,
                               {c \in SourceChars : _is_symbol_char(c)}),
                  "SYMBOL", sexp_depth, "lisp")
      [] OTHER ->
            AldaScanError("Unexpected character in S-expression", start,
                          sexp_depth, "lisp")

\* lines 53-77: blanks, line breaks and comments first, then the lexer of
\* the mode
_scan_token(source, start, sexp_depth) ==
    IF source[start] \in WHITESPACE
    THEN Scanned(start + 1, <<>>, sexp_depth, "none")
    ELSE IF source[start] = "\n"
    THEN Scanned(start + 1, <<Token("NEWLINE", "")>>, sexp_depth, "none")
    ELSE IF source[start] = "#"
    THEN Scanned(AdvanceWhile(source, start + 1, SourceChars \ {"\n"}), <<>>,
                 sexp_depth, "none")
    ELSE IF sexp_depth > 0
    THEN _scan_lisp_token(source, start, sexp_depth)
    ELSE _scan_normal_token(source, start, sexp_depth)

\* lines 29-36: scan() resets the scanner
Scan ==
    /\ s_pc = "start"
    /\ s_pc' = "scanning"
    /\ s_current' = 1
    /\ s_tokens' = <<>>
    /\ s_sexp_depth' = 0
    /\ UNCHANGED <<NotScanner, s_source, s_lexer, l_current, l_open, l_passes, l_pc>>

\* the scanner takes the outcome of a _scan_token call
ScanTokenEnds(outcome) ==
    /\ s_lexer' = outcome.lexer
    /\ IF outcome.message # ""
       THEN /\ s_pc' = "raised"
            /\ UNCHANGED <<s_current, s_tokens, s_sexp_depth>>
       ELSE /\ s_pc' = s_pc
            /\ s_current' = outcome.current
            /\ s_tokens' = s_tokens \o outcome.tokens
            /\ s_sexp_depth' = outcome.sexp_depth

\* lines 38-40: one pass of the loop of scan()
ScanToken ==
    /\ s_pc = "scanning"
    /\ s_current <= Len(s_source)
    /\ ScanTokenEnds(_scan_token(s_source, s_current, s_sexp_depth))
    /\ UNCHANGED <<NotScanner, s_source, l_current, l_open, l_passes, l_pc>>

\* lines 42-51: the EOF token, then the return
ScanReturn ==
    /\ s_pc = "scanning"
    /\ s_current > Len(s_source)
    /\ s_tokens' = Append(s_tokens, Token("EOF", ""))
    /\ s_pc' = "returned"
    /\ UNCHANGED <<NotScanner, s_source, s_current, s_sexp_depth, s_lexer,
                   l_current, l_open, l_passes, l_pc>>

\* _parse_postfix: a REPETITIONS token after the event belongs to it (the
\* texts hold no REPEAT token)
_parse_postfix(tokens, current) ==
    IF _check(tokens, current, "REPETITIONS") THEN current + 1 ELSE current

\* parser.py lines 58-61: Parser(tokens).parse() begins
ParseScanned ==
    /\ s_pc = "returned"
    /\ l_pc = "idle"
    /\ l_pc' = "loop"
    /\ l_current' = _skip_newlines(s_tokens, 1)
    /\ UNCHANGED <<NotScanner, s_source, s_current, s_tokens, s_sexp_depth, s_lexer,
                   s_pc, l_open, l_passes>>

\* _parse_event for a token that opens no S-expression: a NAME is a
\* variable reference, any other token is skipped (lines 251-254); then the
\* line breaks before the next event
ParseTopEvent ==
    /\ l_pc = "loop"
    /\ ~_is_at_end(s_tokens, l_current)
    /\ ~_check(s_tokens, l_current, "LEFT_PAREN")
    /\ l_current' =
            _skip_newlines(s_tokens,
                IF _check(s_tokens, l_current, "NAME")
                THEN _parse_postfix(s_tokens, l_current + 1)
                ELSE l_current + 1)
    /\ UNCHANGED <<NotScanner, s_source, s_current, s_tokens, s_sexp_depth, s_lexer,
                   s_pc, l_open, l_passes, l_pc>>

\* lines 554-555: _parse_sexp called by _parse_primary_event
ParseSexp ==
    /\ l_pc = "loop"
    /\ _check(s_tokens, l_current, "LEFT_PAREN")
    /\ l_current' = l_current + 1
    /\ l_open' = 1
    /\ l_pc' = "sexp"
    /\ UNCHANGED <<NotScanner, s_source, s_current, s_tokens, s_sexp_depth, s_lexer,
                   s_pc, l_passes>>

\* lines 558-561 and 567-603: one pass of the element loop of the innermost
\* _parse_sexp call, up to the return of _parse_lisp_element or, for an
\* element that is a list, up to the element loop of that list
ParseLispElement ==
    /\ l_pc = "sexp"
    /\ l_passes < MaxPasses
    /\ ~_check(s_tokens, l_current, "RIGHT_PAREN")
    /\ ~_is_at_end(s_tokens, l_current)
    /\ l_passes' = l_passes + 1
    /\ IF s_tokens[l_current].type \in {"SYMBOL", "NUMBER", "STRING"}
       THEN /\ l_current' = l_current + 1
            /\ UNCHANGED <<l_open, l_pc>>
       ELSE IF s_tokens[l_current].type = "QUOTE"
       THEN IF _check(s_tokens, l_current + 1, "LEFT_PAREN")
            THEN /\ l_current' = l_current + 2
                 /\ l_open' = l_open + 1
                 /\ l_pc' = l_pc
            ELSE IF _check(s_tokens, l_current + 1, "NAME")
                    \/ _check(s_tokens, l_current + 1, "SYMBOL")
            THEN /\ l_current' = l_current + 2
                 /\ UNCHANGED <<l_open, l_pc>>
            ELSE /\ l_current' = l_current + 1
                 /\ l_pc' = "raised"
                 /\ l_open' = l_open
       ELSE IF s_tokens[l_current].type = "LEFT_PAREN"
       THEN /\ l_current' = l_current + 1
            /\ l_open' = l_open + 1
            /\ l_pc' = l_pc
       \* line 603: return None
       ELSE UNCHANGED <<l_current, l_open, l_pc>>
    /\ UNCHANGED <<NotScanner, s_source, s_current, s_tokens, s_sexp_depth, s_lexer, s_pc>>

\* line 563: the innermost _parse_sexp call consumes `)` and returns, to the
\* element loop around it or to _parse_event, or raises at the end
ParseSexpEnd ==
    /\ l_pc = "sexp"
    /\ \/ _check(s_tokens, l_current, "RIGHT_PAREN")
       \/ _is_at_end(s_tokens, l_current)
    /\ IF _is_at_end(s_tokens, l_current)
       THEN /\ l_pc' = "raised"
            /\ UNCHANGED <<l_current, l_open>>
       ELSE /\ l_open' = l_open - 1
            /\ IF l_open = 1
               THEN /\ l_current' = _skip_newlines(s_tokens,
                                        _parse_postfix(s_tokens, l_current + 1))
                    /\ l_pc' = "loop"
               ELSE /\ l_current' = l_current + 1
                    /\ l_pc' = l_pc
    /\ UNCHANGED <<NotScanner, s_source, s_current, s_tokens, s_sexp_depth, s_lexer,
                   s_pc, l_passes>>

\* line 69: parse() returns the Root
ParseEnds ==
    /\ l_pc = "loop"
    /\ _is_at_end(s_tokens, l_current)
    /\ l_pc' = "returned"
    /\ UNCHANGED <<NotScanner, s_source, s_current, s_tokens, s_sexp_depth, s_lexer,
                   s_pc, l_current, l_open, l_passes>>

Sources(max) == UNION {[1 .. n -> SourceChars] : n \in 0 .. max}

SourceInit ==
    /\ s_source \in Sources(MaxSource)
    /\ s_current = 0
    /\ s_tokens = <<>>
    /\ s_sexp_depth = 0
    /\ s_lexer = "none"
    /\ s_pc = "start"
    /\ l_current = 0
    /\ l_open = 0
    /\ l_passes = 0
    /\ l_pc = "idle"

NextSource ==
    \/ Scan
    \/ ScanToken
    \/ ScanReturn
    \/ ParseScanned
    \/ ParseTopEvent
    \/ ParseSexp
    \/ ParseLispElement
    \/ ParseSexpEnd
    \/ ParseEnds

InitSource == SourceInit /\ PlaybackIdle /\ BuildIdle /\ GeneratorIdle /\ ParserIdle

SpecSource == InitSource /\ [][NextSource]_vars

\* a _scan_token call is made for the character at s_current
ScanTokenStep ==
    /\ s_pc = "scanning"
    /\ s_current <= Len(s_source)
    /\ <<s_current, s_pc>>' # <<s_current, s_pc>>

\* C26: the scanner's nesting depth is never negative; a character that is
\* no blank, line break or comment is handed to the lisp lexer exactly when
\* the depth is greater than 0; a `(` that starts a token adds one to the
\* depth and gives a LEFT_PAREN token, a `)` that starts a token at a depth
\* greater than 0 takes one off and gives a RIGHT_PAREN token, a `)` at depth
\* 0 raises a scan error and adds no token, and no other character changes
\* the depth.
C26_DepthFollowsTheParentheses ==
    /\ [](s_sexp_depth >= 0)
    /\ [][ScanTokenStep =>
            /\ s_lexer' = "none" <=> s_source[s_current] \in {" ", "\n", "#"}
            /\ s_lexer' = "lisp" => s_sexp_depth > 0
            /\ s_lexer' = "normal" => s_sexp_depth = 0
            /\ s_source[s_current] = "(" =>
                    /\ s_pc' = "scanning"
                    /\ s_sexp_depth' = s_sexp_depth + 1
                    /\ s_tokens' = Append(s_tokens, Token("LEFT_PAREN", ""))
            /\ (s_source[s_current] = ")" /\ s_sexp_depth > 0) =>
                    /\ s_pc' = "scanning"
                    /\ s_sexp_depth' = s_sexp_depth - 1
                    /\ s_tokens' = Append(s_tokens, Token("RIGHT_PAREN", ""))
            /\ (s_source[s_current] = ")" /\ s_sexp_depth = 0) =>
                    /\ s_pc' = "raised"
                    /\ s_tokens' = s_tokens
                    /\ s_sexp_depth' = s_sexp_depth
            /\ s_source[s_current] \notin {"(", ")"} =>
                    s_sexp_depth' = s_sexp_depth]_vars

\* the text `())` has been scanned: the depth went up to 1 and back to 0,
\* and the second `)` raised the scan error
C26_Witness ==
    /\ s_pc = "raised"
    /\ s_lexer = "normal"
    /\ s_source[s_current] = ")"
    /\ s_sexp_depth = 0
    /\ Len(s_tokens) >= 2
    /\ s_tokens[Len(s_tokens)].type = "RIGHT_PAREN"

\* C27: parse() terminates on the tokens the scanner returns: every pass of
\* the loop of _parse_sexp over the elements of an S-expression consumes at
\* least one token, whatever token stands between `(` and `)`.
C27_ElementLoopConsumesAToken ==
    [][(l_pc = "sexp" /\ l_passes' = l_passes + 1) => l_current' > l_current]_vars

\* C28: generate() terminates for every score, also when the events stored
\* for a variable refer to that variable, directly or through other
\* variables: the variable references in progress never nest without end,
\* so the interpreter's stack is never exhausted by them.
C28_ReferencesNestFinitely ==
    ~(/\ g_pc = "raised"
      /\ g_agenda # <<>>
      /\ Head(g_agenda).type = "VariableReference"
      /\ ReferenceDepth(g_agenda) >= RecursionLimit)

RECURSIVE CommonDenominator(_, _)
CommonDenominator(times, sofar) ==
    IF times = <<>> THEN sofar
    ELSE CommonDenominator(Tail(times),
                           (sofar * Head(times)[2]) \div GCD(sofar, Head(times)[2]))

\* the times of the sequence: starts, durations, change times
TimesOf(sequence) ==
    [k \in DOMAIN sequence.notes |-> sequence.notes[k].start_time]
        \o [k \in DOMAIN sequence.notes |-> sequence.notes[k].duration]
        \o [k \in DOMAIN sequence.program_changes |-> sequence.program_changes[k].time]
        \o [k \in DOMAIN sequence.control_changes |-> sequence.control_changes[k].time]

\* the time x as a whole number of units of 1 / unit second
InUnits(x, unit) == x[1] * (unit \div x[2])

\* the sequence with its times counted in units of 1 / unit second, so
\* that the order and the equality of its times are those of the seconds
SequenceInUnits(sequence, unit) ==
    [sequence EXCEPT
        !.notes = [k \in DOMAIN @ |->
                    [@[k] EXCEPT !.start_time = InUnits(@, unit),
                                 !.duration = InUnits(@, unit)]],
        !.program_changes = [k \in DOMAIN @ |-> [@[k] EXCEPT !.time = InUnits(@, unit)]],
        !.control_changes = [k \in DOMAIN @ |-> [@[k] EXCEPT !.time = InUnits(@, unit)]]]

\* the event list play() would build for the generated sequence
PlaybackEventsOf(sequence) ==
    _build_events(SequenceInUnits(sequence, CommonDenominator(TimesOf(sequence), 1)))

\* in the playback event list every note-off comes after more note-ons than
\* note-offs of its channel and pitch
OffsFollowOns(events) ==
    \A i \in DOMAIN events :
        events[i].event_type = "note_off" =>
            Cardinality({j \in 1 .. i - 1 :
                            /\ events[j].event_type = "note_on"
                            /\ events[j].args[1] = events[i].args[1]
                            /\ events[j].args[2] = events[i].args[2]})
                > Cardinality({j \in 1 .. i - 1 :
                            /\ events[j].event_type = "note_off"
                            /\ events[j].args = events[i].args})

\* the same in a channel track: status 0x8n is a note-off, 0x9n a note-on
TrackOffsFollowOns(events) ==
    \A i \in DOMAIN events :
        events[i].data[1] \div 16 = 8 =>
            Cardinality({j \in 1 .. i - 1 :
                            /\ events[j].data[1] \div 16 = 9
                            /\ events[j].data[2] = events[i].data[2]})
                > Cardinality({j \in 1 .. i - 1 :
                            /\ events[j].data[1] \div 16 = 8
                            /\ events[j].data[2] = events[i].data[2]})

\* C29: for the sequence generate() returns, whatever the durations of its
\* notes, every note-off of the playback event list and of every channel
\* track of the MIDI file comes after the note-on of its own note: no
\* note-off is sent for a note that has not been started, and no started
\* note is left without a note-off after it.
C29_NoteOnBeforeItsNoteOff ==
    g_pc = "returned" =>
        /\ OffsFollowOns(PlaybackEventsOf(g_sequence))
        /\ \A k \in DOMAIN g_sequence.notes :
                TrackOffsFollowOns(
                    ChannelTrackEvents(g_sequence, g_sequence.notes[k].channel,
                        IF g_sequence.tempo_changes # <<>>
                        THEN _bpm_to_tempo(g_sequence.tempo_changes[1].bpm)
                        ELSE 500000))

\* a shutdown() call has returned, none of its joins having timed out, and
\* its caller has made no further call
ShutdownReturned ==
    \E c \in CallerIds :
        /\ callers[c].op = "shutdown"
        /\ callers[c].pc = "done"
        /\ ~callers[c].timed_out

\* C30: once shutdown() has returned no event of any sequence is handed to
\* the output any more, whatever play() calls were in progress when it was
\* called, and a play() call that starts after it returns None.
C30_NoDispatchAfterShutdown ==
    [][ShutdownReturned =>
            /\ dispatched' = dispatched
            /\ \A p \in CallIds :
                    (results[p] = Pending /\ results'[p] # Pending
                        /\ play_events[p] = <<>> /\ play_events'[p] = <<>>)
                            => results'[p] = NoSlot]_vars

====
